---- MODULE Spec2Model ----
(***************************************************************************)
(* The layout model of flex-layout: the node tree (Node.ts), the Model     *)
(* with its id index, active / maximized tabset pointers and change        *)
(* listeners, and the action reducer Model.doAction (Model.ts).            *)
(*                                                                         *)
(* Nodes live in an arena: a node is a handle in 1..MaxNodes, object       *)
(* identity (===) is equality of handles, `undefined` is NoNode.  A node   *)
(* that was detached from the tree stays in the arena, exactly as a        *)
(* JavaScript object that something may still point to.                    *)
(***************************************************************************)
EXTENDS Integers, Sequences, FiniteSets, TLC

\* ------------------------------------------------------------------ bounds
MaxSteps == 2
MaxListeners == 2

\* the arena holds the nodes of the document and what MaxSteps calls can
\* allocate (one call makes at most a tab, a tabset and two rows)
MaxNodes == 10 + 4 * MaxSteps

\* ------------------------------------------------------------ value domains
NoNode == 0
Nodes == 1..MaxNodes
Undefined == "undefined"
UndefinedNumber == 0 - 1

Listeners == {"L1", "L2"}

\* ids given in the JSON document, ids a caller may put in a new tab's JSON,
\* an id that never names a node, and the ids nextUniqueId generates
DocIds == {"ts1", "ts2", "ts3", "t1", "t2", "t3", "border_left", "b1", "b2", "r1", "r2"}
NewIds == {"n1"}
UnknownId == "nope"
GenIds == [i \in 1..MaxNodes |-> "#" \o ToString(i)]
Ids == DocIds \cup NewIds \cup {UnknownId} \cup {GenIds[i] : i \in 1..MaxNodes}

\* --------------------------------------------------------------- sequences
\* Array.prototype.indexOf: the first 0-based position of x, -1 when absent
indexOf(s, x) ==
    IF \E i \in 1..Len(s) : s[i] = x
    THEN (CHOOSE i \in 1..Len(s) : s[i] = x /\ \A j \in 1..(i - 1) : s[j] # x) - 1
    ELSE 0 - 1

\* Array.prototype.splice(pos, 1)
spliceRemove(s, pos) ==
    [i \in 1..(Len(s) - 1) |-> IF i <= pos THEN s[i] ELSE s[i + 1]]

\* Array.prototype.splice(pos, 0, x): a start beyond the end inserts at the
\* end, a negative start counts from the end
spliceInsert(s, pos, x) ==
    LET start == IF pos < 0
                 THEN (IF Len(s) + pos < 0 THEN 0 ELSE Len(s) + pos)
                 ELSE (IF pos > Len(s) THEN Len(s) ELSE pos)
    IN  [i \in 1..(Len(s) + 1) |->
            IF i <= start THEN s[i] ELSE IF i = start + 1 THEN x ELSE s[i - 1]]

\* ------------------------------------------------------------------- state
VARIABLES
    nodes,            \* the arena: handle -> the node's fields
    root,             \* Model._root
    borders,          \* Model.borders: the border nodes, in order
    idMap,            \* Model.idMap: id -> handle, NoNode when absent
    attributes,       \* Model.attributes: the global attributes
    maximizedTabSet,  \* Model._maximizedTabSet
    activeTabSet,     \* Model._activeTabSet
    changeListeners,  \* Model.changeListeners
    nextNode,         \* the next unused handle (object allocation)
    uuid,             \* how many ids nextUniqueId has generated
    trace,            \* the doAction calls made: the action, and the model and
                      \* the listeners as the call found them
    outcome,          \* how the last call ended: returned value or exception
    notified,         \* the listener calls the last call made, in order
    steps,            \* calls on the model made so far
    view              \* the view layer on the model (the Layout components, a
                      \* drag in progress), NoView when none is mounted

vars == <<nodes, root, borders, idMap, attributes, maximizedTabSet, activeTabSet,
          changeListeners, nextNode, uuid, trace, outcome, notified, steps, view>>

\* The model object as one value, for the operators below
Model ==
    [nodes |-> nodes, root |-> root, borders |-> borders, idMap |-> idMap,
     attributes |-> attributes, maximizedTabSet |-> maximizedTabSet,
     activeTabSet |-> activeTabSet, nextNode |-> nextNode, uuid |-> uuid]

\* no view is mounted on the model
NoView == <<>>

\* A handle that holds no object yet
FreeNode ==
    [type |-> "none", id |-> Undefined, parent |-> NoNode, children |-> <<>>,
     selected |-> UndefinedNumber, weight |-> UndefinedNumber, size |-> UndefinedNumber,
     name |-> Undefined, enableClose |-> Undefined, enableDeleteWhenEmpty |-> Undefined]

\* a local bound once to the value of an expression (const x = v; ...)
Bind(v, F(_)) == F(v)

\* -------------------------------------------------------------------- Node
getType(m, n) == m.nodes[n].type
getParent(m, n) == m.nodes[n].parent
getChildren(m, n) == m.nodes[n].children
getId(m, n) == m.nodes[n].id
getSelected(m, n) == m.nodes[n].selected
getWeight(m, n) == m.nodes[n].weight

isTabNode(m, n) == n # NoNode /\ getType(m, n) = "tab"
isTabSetNode(m, n) == n # NoNode /\ getType(m, n) = "tabset"
isRowNode(m, n) == n # NoNode /\ getType(m, n) = "row"
isBorderNode(m, n) == n # NoNode /\ getType(m, n) = "border"

setSelected(m, n, index) == [m EXCEPT !.nodes[n].selected = index]
setWeight(m, n, weight) == [m EXCEPT !.nodes[n].weight = weight]
setParent(m, n, parent) == [m EXCEPT !.nodes[n].parent = parent]

\* Node.getAttr: the node's own value, else the model attribute it inherits
getAttr(m, n, name, modelName) ==
    IF m.nodes[n][name] # Undefined THEN m.nodes[n][name] ELSE m.attributes[modelName]

\* Node.removeChild: the child leaves the list; its parent pointer is kept
removeChild(m, n, childNode) ==
    LET pos == indexOf(getChildren(m, n), childNode)
    IN  IF pos # 0 - 1
        THEN [m EXCEPT !.nodes[n].children = spliceRemove(@, pos)]
        ELSE m

\* the position Node.removeChild returns
removeChildPos(m, n, childNode) == indexOf(getChildren(m, n), childNode)

\* variant of Node.addChild that does not set the child's parent
addChildKeepsParent(m, n, childNode, pos) ==
    IF pos # <<>>
    THEN [m EXCEPT !.nodes[n].children = spliceInsert(@, pos[1], childNode)]
    ELSE [m EXCEPT !.nodes[n].children = Append(@, childNode)]

\* variant of Node.addChild that always appends
addChildAtEnd(m, n, childNode, pos) ==
    [m EXCEPT !.nodes[n].children = Append(@, childNode),
              !.nodes[childNode].parent = n]

\* Node.addChild(childNode, pos?): pos is <<>> when the argument is omitted
addChild(m, n, childNode, pos) ==
    LET m1 == IF pos # <<>>
              THEN [m EXCEPT !.nodes[n].children = spliceInsert(@, pos[1], childNode)]
              ELSE [m EXCEPT !.nodes[n].children = Append(@, childNode)]
    IN  [m1 EXCEPT !.nodes[childNode].parent = n]

\* Node.removeAll
removeAll(m, n) == [m EXCEPT !.nodes[n].children = <<>>]

\* Node.forEachNode: the nodes of the subtree at n, in the order visited
RECURSIVE forEachNode(_, _)
RECURSIVE forEachNodes(_, _)
forEachNode(m, n) == <<n>> \o forEachNodes(m, getChildren(m, n))
forEachNodes(m, s) ==
    IF s = <<>> THEN <<>> ELSE forEachNode(m, Head(s)) \o forEachNodes(m, Tail(s))

\* Node.getOrientation
RECURSIVE getOrientation(_, _)
getOrientation(m, n) ==
    IF getParent(m, n) = NoNode
    THEN (IF m.attributes.rootOrientationVertical = "true" THEN "vert" ELSE "horz")
    ELSE (IF getOrientation(m, getParent(m, n)) = "horz" THEN "vert" ELSE "horz")

\* ------------------------------------------------------------------- Model
\* BorderSet.forEachNode: each border, then the nodes below it
RECURSIVE bordersForEachNode(_, _)
bordersForEachNode(m, bs) ==
    IF bs = <<>> THEN <<>>
    ELSE forEachNode(m, Head(bs)) \o bordersForEachNode(m, Tail(bs))

\* Model.visitNodes: the borders first, then the tree under the root
visitNodes(m) == bordersForEachNode(m, m.borders) \o forEachNode(m, m.root)

\* the nodes of m that visitNodes reaches (from the borders or the root)
reachable(m) == LET v == visitNodes(m) IN {v[k] : k \in 1..Len(v)}

getNodeById(m, id) == m.idMap[id]

getMaximizedTabset(m) == m.maximizedTabSet

getActiveTabset(m) ==
    IF m.activeTabSet # NoNode /\ getNodeById(m, getId(m, m.activeTabSet)) # NoNode
    THEN m.activeTabSet
    ELSE NoNode

\* variant of updateIdMap that leaves the index as it is
updateIdMapSkipped(m) == m

\* Model.updateIdMap: cleared, then set for every node visited (a later node
\* with the same id overwrites an earlier one)
updateIdMap(m) ==
    LET v == visitNodes(m)
        hits(id) == {k \in 1..Len(v) : getId(m, v[k]) = id}
        last(S) == CHOOSE k \in S : \A j \in S : j <= k
    IN  [m EXCEPT !.idMap = [id \in Ids |->
            IF hits(id) = {} THEN NoNode ELSE v[last(hits(id))]]]

\* variant of the addNode check that accepts every id
addNodeNeverThrows(m, n) == FALSE

\* Model.addNode throws when the id is in the index
addNodeThrows(m, n) == m.idMap[getId(m, n)] # NoNode

\* Model.addNode, when it does not throw
addNode(m, n) == [m EXCEPT !.idMap[getId(m, n)] = n]

\* Model.nextUniqueId
nextUniqueId(m) == GenIds[m.uuid + 1]

\* Model.setActiveTabset / Model.setMaximizedTabset
setActiveTabset(m, tabsetNode) == [m EXCEPT !.activeTabSet = tabsetNode]
setMaximizedTabset(m, tabsetNode) == [m EXCEPT !.maximizedTabSet = tabsetNode]

\* ------------------------------------------------- node kinds (constructors)
\* new TabNode(model, json, true): the attributes are read from the JSON,
\* then model.addNode(this) asks for the id (generated when the JSON has
\* none) and throws when the index already holds it
tabNodeAttributes(m, json) ==
    [m EXCEPT
        !.nodes[m.nextNode] = [FreeNode EXCEPT !.type = "tab",
                                  !.id = IF json.id # Undefined THEN json.id
                                         ELSE nextUniqueId(m),
                                  !.name = json.name,
                                  !.enableClose = json.enableClose],
        !.nextNode = @ + 1,
        !.uuid = IF json.id # Undefined THEN @ ELSE @ + 1]

newTabNodeThrows(m, json) == addNodeThrows(tabNodeAttributes(m, json), m.nextNode)

newTabNode(m, json) == addNode(tabNodeAttributes(m, json), m.nextNode)

\* new TabSetNode(model, {selected?}): selected defaults to 0, weight to 100;
\* the id is generated
newTabSetNode(m, selected) ==
    LET n == m.nextNode
        m1 == [m EXCEPT
                !.nodes[n] = [FreeNode EXCEPT !.type = "tabset", !.id = nextUniqueId(m),
                                !.selected = selected, !.weight = 100],
                !.nextNode = n + 1,
                !.uuid = @ + 1]
    IN  addNode(m1, n)

\* new RowNode(model, {}): weight defaults to 100; the id is generated
newRowNode(m) ==
    LET n == m.nextNode
        m1 == [m EXCEPT
                !.nodes[n] = [FreeNode EXCEPT !.type = "row", !.id = nextUniqueId(m),
                                !.weight = 100],
                !.nextNode = n + 1,
                !.uuid = @ + 1]
    IN  addNode(m1, n)

isEnableClose(m, n) == getAttr(m, n, "enableClose", "tabEnableClose") = "true"
isEnableDeleteWhenEmpty(m, n) ==
    getAttr(m, n, "enableDeleteWhenEmpty", "tabSetEnableDeleteWhenEmpty") = "true"
\* variant of TabSetNode.isMaximized that also answers for the active tabset
isMaximizedOrActive(m, n) == getMaximizedTabset(m) = n \/ m.activeTabSet = n

\* TabSetNode.isMaximized
isMaximized(m, n) == getMaximizedTabset(m) = n

\* TabSetNode.isAutoSelectTab
tabsetIsAutoSelectTab(m, n) == m.attributes.tabSetAutoSelectTab = "true"

\* BorderNode.isAutoSelectTab: one attribute while a tab is open, another
\* while none is
borderIsAutoSelectTab(m, n) ==
    IF getSelected(m, n) # 0 - 1
    THEN m.attributes.borderAutoSelectTabWhenOpen = "true"
    ELSE m.attributes.borderAutoSelectTabWhenClosed = "true"

\* DockLocation: the orientation of a location and its index offset
locationOrientation(location) ==
    IF location \in {"left", "right"} THEN "horz" ELSE "vert"
locationIndexPlus(location) ==
    IF location \in {"bottom", "right"} THEN 1 ELSE 0

\* adjustSelectedIndex: the selected index of a tabset or border after the
\* child at removedIndex left it
adjustSelectedIndex(m, parent, removedIndex) ==
    IF parent # NoNode /\ (isTabSetNode(m, parent) \/ isBorderNode(m, parent))
    THEN LET selectedIndex == getSelected(m, parent)
             len == Len(getChildren(m, parent))
         IN  IF selectedIndex = 0 - 1 THEN m
             ELSE IF removedIndex = selectedIndex /\ len > 0
                  THEN (IF removedIndex >= len THEN setSelected(m, parent, len - 1) ELSE m)
             ELSE IF removedIndex < selectedIndex
                  THEN setSelected(m, parent, selectedIndex - 1)
             ELSE IF removedIndex > selectedIndex THEN m
             ELSE setSelected(m, parent, 0 - 1)
    ELSE m

\* ----------------------------------------------------------------- tidy
\* the sum of the weights of the nodes of s
RECURSIVE sumWeights(_, _)
sumWeights(m, s) ==
    IF s = <<>> THEN 0 ELSE getWeight(m, Head(s)) + sumWeights(m, Tail(s))

\* the children of a single row child are hoisted into row at i, i+1, ...,
\* each with its share of the weight of the row they replace
RECURSIVE hoistChildren(_, _, _, _, _, _)
hoistChildren(m, row, subs, j, i, scale) ==
    IF j > Len(subs) THEN m
    ELSE LET sub == subs[j]
             w == (scale[1] * getWeight(m, sub)) \div scale[2]
         IN  hoistChildren(addChild(setWeight(m, sub, w), row, sub, <<i + j - 1>>),
                           row, subs, j + 1, i, scale)

\* RowNode.tidy: collapse degenerate structure below row
RECURSIVE rowTidy(_, _)
RECURSIVE rowTidyLoop(_, _, _)
rowTidyLoop(m, row, i) ==
    IF i >= Len(getChildren(m, row)) THEN m
    ELSE
    Bind(getChildren(m, row)[i + 1], LAMBDA child :
    IF isRowNode(m, child)
    THEN Bind(rowTidy(m, child), LAMBDA m1 :
         Bind(getChildren(m1, child), LAMBDA childChildren :
         IF Len(childChildren) = 0
         THEN rowTidyLoop(removeChild(m1, row, child), row, i)
         ELSE IF Len(childChildren) = 1
         THEN Bind(childChildren[1], LAMBDA subchild :
              Bind(removeChild(m1, row, child), LAMBDA m2 :
              IF isRowNode(m2, subchild)
              THEN Bind(getChildren(m2, subchild), LAMBDA subs :
                   Bind(sumWeights(m2, subs), LAMBDA total :
                   rowTidyLoop(
                     hoistChildren(m2, row, subs, 1, i,
                        <<getWeight(m2, child), IF total = 0 THEN 1 ELSE total>>),
                     row, i)))
              ELSE rowTidyLoop(
                     addChild(setWeight(m2, subchild, getWeight(m2, child)),
                              row, subchild, <<i>>),
                     row, i)))
         ELSE rowTidyLoop(m1, row, i + 1)))
    ELSE IF isTabSetNode(m, child) /\ Len(getChildren(m, child)) = 0
    THEN IF isEnableDeleteWhenEmpty(m, child)
         THEN Bind(removeChild(m, row, child), LAMBDA m1 :
              rowTidyLoop(IF child = getMaximizedTabset(m1)
                          THEN setMaximizedTabset(m1, NoNode) ELSE m1,
                          row, i))
         ELSE rowTidyLoop(m, row, i + 1)
    ELSE rowTidyLoop(m, row, i + 1))

rowTidy(m, row) ==
    Bind(rowTidyLoop(m, row, 0), LAMBDA m1 :
    IF row = m1.root /\ Len(getChildren(m1, row)) = 0
    THEN \* a tabset is put into the empty root
         Bind(m1.nextNode, LAMBDA child :
         addChild(setActiveTabset(newTabSetNode(m1, 0 - 1), child), row, child, <<>>))
    ELSE m1)

\* variant of Model.tidy that leaves the tree as it is
tidySkipped(m) == m

\* Model.tidy
tidy(m) == rowTidy(m, m.root)

\* --------------------------------------------------------------- delete
\* TabSetNode.remove(tab): the tab leaves, the tree is tidied, the selection
\* follows
tabsetRemove(m, n, tab) ==
    adjustSelectedIndex(tidy(removeChild(m, n, tab)), n, removeChildPos(m, n, tab))

\* BorderNode.remove(tab)
borderRemove(m, n, tab) ==
    Bind(removeChild(m, n, tab), LAMBDA m1 :
    IF getSelected(m1, n) # 0 - 1
    THEN adjustSelectedIndex(m1, n, removeChildPos(m, n, tab))
    ELSE m1)

\* TabNode.delete: the parent removes the tab
tabDelete(m, tab) ==
    IF isBorderNode(m, getParent(m, tab)) THEN borderRemove(m, getParent(m, tab), tab)
    ELSE tabsetRemove(m, getParent(m, tab), tab)

\* TabSetNode.delete: the parent row removes the tabset
tabsetDelete(m, n) == removeChild(m, getParent(m, n), n)

\* ----------------------------------------------------------------- drop
\* The tabs of a dragged tabset become children of n at insertPos, insertPos+1, ...
RECURSIVE addChildren(_, _, _, _)
addChildren(m, n, tabs, insertPos) ==
    IF tabs = <<>> THEN m
    ELSE addChildren(addChild(m, n, Head(tabs), <<insertPos>>), n, Tail(tabs), insertPos + 1)

\* select || (select !== false && autoSelect)
wantsSelect(select, autoSelect) ==
    select = "true" \/ (select # "false" /\ autoSelect)

\* the position the dragged node has in its parent, 0 when it has none
dragFromIndex(m, dragNode) ==
    IF getParent(m, dragNode) # NoNode
    THEN removeChildPos(m, getParent(m, dragNode), dragNode)
    ELSE 0

\* a tab moved forward inside its own parent: the insertion index shifts
dragInsertIndex(m, this, dragNode, index) ==
    IF isTabNode(m, dragNode) /\ getParent(m, dragNode) = this
       /\ dragFromIndex(m, dragNode) < index /\ index > 0
    THEN index - 1 ELSE index

\* TabSetNode.drop(dragNode, location, index, select), dragNode a tab or a
\* tabset
tabsetDrop(m, this, dragNode, location, index, select) ==
    IF this = dragNode THEN m
    ELSE
    Bind(getParent(m, dragNode), LAMBDA dragParent :
    Bind(dragFromIndex(m, dragNode), LAMBDA fromIndex :
    Bind(IF dragParent = NoNode THEN m
         ELSE Bind(removeChild(m, dragParent, dragNode), LAMBDA r :
              IF isBorderNode(r, dragParent) /\ getSelected(r, dragParent) = fromIndex
              THEN setSelected(r, dragParent, 0 - 1)
              ELSE adjustSelectedIndex(r, dragParent, fromIndex)), LAMBDA m1 :
    Bind(dragInsertIndex(m, this, dragNode, index), LAMBDA index1 :
    IF location = "center"
    THEN Bind(IF index1 = 0 - 1 THEN Len(getChildren(m1, this)) ELSE index1, LAMBDA insertPos :
         Bind(IF isTabNode(m1, dragNode)
              THEN Bind(addChild(m1, this, dragNode, <<insertPos>>), LAMBDA a :
                   IF wantsSelect(select, tabsetIsAutoSelectTab(a, this))
                   THEN setSelected(a, this, insertPos) ELSE a)
              ELSE Bind(addChildren(m1, this, getChildren(m1, dragNode), insertPos), LAMBDA a :
                   IF getSelected(a, this) = 0 - 1 /\ Len(getChildren(a, this)) > 0
                   THEN setSelected(a, this, 0) ELSE a), LAMBDA m2 :
         tidy(setActiveTabset(m2, this))))
    ELSE \* a dragged tab gets a new tabset of its own
         Bind(IF isTabNode(m1, dragNode) THEN m1.nextNode ELSE dragNode, LAMBDA moveNode :
         Bind(IF isTabNode(m1, dragNode)
              THEN addChild(newTabSetNode(m1, 0), moveNode, dragNode, <<>>)
              ELSE m1, LAMBDA m2 :
         Bind(getParent(m2, this), LAMBDA parentRow :
         Bind(indexOf(getChildren(m2, parentRow), this), LAMBDA pos :
         Bind(getWeight(m2, this) \div 2, LAMBDA half :
         Bind(IF getOrientation(m2, parentRow) = locationOrientation(location)
              THEN addChild(setWeight(setWeight(m2, moveNode, half), this, half),
                            parentRow, moveNode, <<pos + locationIndexPlus(location)>>)
              ELSE \* a new row hosts this tabset and the moved one
                   Bind(m2.nextNode, LAMBDA newRow :
                   Bind(setWeight(newRowNode(m2), newRow, getWeight(m2, this)), LAMBDA a :
                   Bind(addChild(a, newRow, this, <<>>), LAMBDA b :
                   Bind(setWeight(setWeight(b, this, 50), moveNode, 50), LAMBDA c :
                   Bind(addChild(c, newRow, moveNode, <<locationIndexPlus(location)>>), LAMBDA d :
                   Bind(removeChild(d, parentRow, this), LAMBDA e :
                   addChild(e, parentRow, newRow, <<pos>>))))))), LAMBDA m3 :
         tidy(setActiveTabset(m3, moveNode))))))))))))

\* BorderNode.drop(dragNode, location, index, select): only a tab is added
borderDrop(m, this, dragNode, location, index, select) ==
    Bind(getParent(m, dragNode), LAMBDA dragParent :
    Bind(dragFromIndex(m, dragNode), LAMBDA fromIndex :
    Bind(IF dragParent = NoNode THEN m
         ELSE Bind(removeChild(m, dragParent, dragNode), LAMBDA r :
              IF dragParent # this /\ isBorderNode(r, dragParent)
                 /\ getSelected(r, dragParent) = fromIndex
              THEN setSelected(r, dragParent, 0 - 1)
              ELSE adjustSelectedIndex(r, dragParent, fromIndex)), LAMBDA m1 :
    Bind(dragInsertIndex(m, this, dragNode, index), LAMBDA index1 :
    Bind(IF index1 = 0 - 1 THEN Len(getChildren(m1, this)) ELSE index1, LAMBDA insertPos :
    Bind(IF isTabNode(m1, dragNode) THEN addChild(m1, this, dragNode, <<insertPos>>) ELSE m1,
         LAMBDA m2 :
    Bind(IF wantsSelect(select, borderIsAutoSelectTab(m2, this))
         THEN setSelected(m2, this, insertPos) ELSE m2, LAMBDA m3 :
    tidy(m3))))))))

\* all of s become the last children of n, in order
RECURSIVE appendChildren(_, _, _)
appendChildren(m, n, s) ==
    IF s = <<>> THEN m ELSE appendChildren(addChild(m, n, Head(s), <<>>), n, Tail(s))

\* RowNode.drop across the row: a new row pair wraps the old children, the
\* dropped node before or after them
rowDropAcross(m, this, node, first) ==
    Bind(m.nextNode, LAMBDA vrow :
    Bind(m.nextNode + 1, LAMBDA hrow :
    Bind(newRowNode(newRowNode(m)), LAMBDA a :
    Bind(setWeight(setWeight(a, hrow, 75), node, 25), LAMBDA b :
    Bind(removeAll(appendChildren(b, hrow, getChildren(b, this)), this), LAMBDA c :
    Bind(IF first
         THEN addChild(addChild(c, vrow, node, <<>>), vrow, hrow, <<>>)
         ELSE addChild(addChild(c, vrow, hrow, <<>>), vrow, node, <<>>), LAMBDA d :
    addChild(d, this, vrow, <<>>)))))))

\* RowNode.drop(dragNode, location, index), dragNode a tab or a tabset
rowDrop(m, this, dragNode, location, index) ==
    Bind(getParent(m, dragNode), LAMBDA parent :
    Bind(IF parent # NoNode THEN removeChild(m, parent, dragNode) ELSE m, LAMBDA m1 :
    Bind(IF isTabSetNode(m1, parent) THEN setSelected(m1, parent, 0)
         ELSE IF isBorderNode(m1, parent) THEN setSelected(m1, parent, 0 - 1)
         ELSE m1, LAMBDA m2 :
    Bind(IF isTabSetNode(m2, dragNode) THEN dragNode ELSE m2.nextNode, LAMBDA node :
    Bind(IF isTabSetNode(m2, dragNode) THEN m2
         ELSE addChild(newTabSetNode(m2, 0), node, dragNode, <<>>), LAMBDA m3 :
    Bind(sumWeights(m3, getChildren(m3, this)), LAMBDA sum :
    Bind(setWeight(m3, node, (IF sum = 0 THEN 100 ELSE sum) \div 3), LAMBDA m4 :
    Bind(m4.attributes.rootOrientationVertical # "true", LAMBDA horz :
    Bind(IF location = "center"
         THEN (IF index = 0 - 1
               THEN addChild(m4, this, node, <<Len(getChildren(m4, this))>>)
               ELSE addChild(m4, this, node, <<index>>))
         ELSE IF (horz /\ location = "left") \/ (~horz /\ location = "top")
         THEN addChild(m4, this, node, <<0>>)
         ELSE IF (horz /\ location = "right") \/ (~horz /\ location = "bottom")
         THEN addChild(m4, this, node, <<>>)
         ELSE rowDropAcross(m4, this, node,
                            (horz /\ location = "top") \/ (~horz /\ location = "left")),
         LAMBDA m5 :
    tidy(setActiveTabset(m5, node)))))))))))

\* toNode.drop(...), by the kind of toNode
drop(m, toNode, dragNode, location, index, select) ==
    IF isTabSetNode(m, toNode) THEN tabsetDrop(m, toNode, dragNode, location, index, select)
    ELSE IF isBorderNode(m, toNode) THEN borderDrop(m, toNode, dragNode, location, index, select)
    ELSE rowDrop(m, toNode, dragNode, location, index)

\* --------------------------------------------------------------- doAction
\* what the switch of doAction leaves: the model, and whether it returned
\* (with returnVal) or an exception left doAction before the index rebuild
Returned(m, returnVal) == [m |-> m, threw |-> FALSE, returnVal |-> returnVal]
Thrown(m) == [m |-> m, threw |-> TRUE, returnVal |-> NoNode]

\* the kinds of node that have a drop method
isDropTarget(m, n) == isTabSetNode(m, n) \/ isBorderNode(m, n) \/ isRowNode(m, n)

\* variant of ADD_NODE that swallows the duplicate-id error
doAddNodeSwallowing(m, data) ==
    IF newTabNodeThrows(m, data.json) THEN [m |-> m, threw |-> FALSE, returnVal |-> NoNode]
    ELSE Bind(newTabNode(m, data.json), LAMBDA m1 :
         IF m1.idMap[data.toNode] # NoNode
            /\ getType(m1, m1.idMap[data.toNode]) \in {"tabset", "border", "row"}
         THEN [m |-> drop(m1, m1.idMap[data.toNode], m.nextNode,
                          data.location, data.index, data.select),
               threw |-> FALSE, returnVal |-> m.nextNode]
         ELSE [m |-> m1, threw |-> FALSE, returnVal |-> NoNode])

\* variant of ADD_NODE that forgets to return the new node
doAddNodeNoReturn(m, data) ==
    IF newTabNodeThrows(m, data.json) THEN [m |-> m, threw |-> TRUE, returnVal |-> NoNode]
    ELSE Bind(newTabNode(m, data.json), LAMBDA m1 :
         IF m1.idMap[data.toNode] # NoNode
            /\ getType(m1, m1.idMap[data.toNode]) \in {"tabset", "border", "row"}
         THEN [m |-> drop(m1, m1.idMap[data.toNode], m.nextNode,
                          data.location, data.index, data.select),
               threw |-> FALSE, returnVal |-> NoNode]
         ELSE [m |-> m1, threw |-> FALSE, returnVal |-> NoNode])

\* case Actions.ADD_NODE
doAddNode(m, data) ==
    IF newTabNodeThrows(m, data.json) THEN Thrown(m)
    ELSE Bind(m.nextNode, LAMBDA newNode :
         Bind(newTabNode(m, data.json), LAMBDA m1 :
         Bind(m1.idMap[data.toNode], LAMBDA toNode :
         IF isDropTarget(m1, toNode)
         THEN Returned(drop(m1, toNode, newNode, data.location, data.index, data.select),
                       newNode)
         ELSE Returned(m1, NoNode))))

\* variant of MOVE_NODE that leaves the maximized tabset as it is
doMoveNodeKeepsMaximized(m, data) ==
    Bind(m.idMap[data.fromNode], LAMBDA fromNode :
    IF isTabNode(m, fromNode) \/ isTabSetNode(m, fromNode) \/ isRowNode(m, fromNode)
    THEN Bind(m.idMap[data.toNode], LAMBDA toNode :
         IF isDropTarget(m, toNode)
         THEN Returned(drop(m, toNode, fromNode, data.location, data.index, data.select),
                       NoNode)
         ELSE Returned(m, NoNode))
    ELSE Returned(m, NoNode))

\* case Actions.MOVE_NODE
doMoveNode(m, data) ==
    Bind(m.idMap[data.fromNode], LAMBDA fromNode :
    IF isTabNode(m, fromNode) \/ isTabSetNode(m, fromNode) \/ isRowNode(m, fromNode)
    THEN Bind(IF fromNode = getMaximizedTabset(m)
              THEN [m EXCEPT !.maximizedTabSet = NoNode] ELSE m, LAMBDA m1 :
         Bind(m1.idMap[data.toNode], LAMBDA toNode :
         IF isDropTarget(m1, toNode)
         THEN Returned(drop(m1, toNode, fromNode, data.location, data.index, data.select),
                       NoNode)
         ELSE Returned(m1, NoNode)))
    ELSE Returned(m, NoNode))

\* case Actions.DELETE_TAB
doDeleteTab(m, data) ==
    LET node == m.idMap[data.node]
    IN  IF isTabNode(m, node) THEN Returned(tabDelete(m, node), NoNode)
        ELSE Returned(m, NoNode)

\* the loop of DELETE_TABSET over the copy of the children
RECURSIVE deleteCloseable(_, _)
deleteCloseable(m, children) ==
    IF children = <<>> THEN m
    ELSE deleteCloseable(IF isEnableClose(m, Head(children))
                         THEN tabDelete(m, Head(children)) ELSE m,
                         Tail(children))

\* variant of DELETE_TABSET that deletes the tabset whatever is left in it
doDeleteTabsetAlways(m, data) ==
    IF m.idMap[data.node] # NoNode /\ getType(m, m.idMap[data.node]) = "tabset"
    THEN Bind(deleteCloseable(m, getChildren(m, m.idMap[data.node])), LAMBDA m1 :
         [m |-> tidy(tabsetDelete(m1, m.idMap[data.node])),
          threw |-> FALSE, returnVal |-> NoNode])
    ELSE [m |-> m, threw |-> FALSE, returnVal |-> NoNode]

\* variant of DELETE_TABSET that never deletes the tabset itself
doDeleteTabsetKeepsTabset(m, data) ==
    IF m.idMap[data.node] # NoNode /\ getType(m, m.idMap[data.node]) = "tabset"
    THEN [m |-> tidy(deleteCloseable(m, getChildren(m, m.idMap[data.node]))),
          threw |-> FALSE, returnVal |-> NoNode]
    ELSE [m |-> m, threw |-> FALSE, returnVal |-> NoNode]

\* case Actions.DELETE_TABSET
doDeleteTabset(m, data) ==
    LET node == m.idMap[data.node]
    IN  IF isTabSetNode(m, node)
        THEN Bind(deleteCloseable(m, getChildren(m, node)), LAMBDA m1 :
             Returned(tidy(IF Len(getChildren(m1, node)) = 0
                           THEN tabsetDelete(m1, node) ELSE m1),
                      NoNode))
        ELSE Returned(m, NoNode)

\* case Actions.RENAME_TAB
doRenameTab(m, data) ==
    LET node == m.idMap[data.node]
    IN  IF isTabNode(m, node)
        THEN Returned([m EXCEPT !.nodes[node].name = data.text], NoNode)
        ELSE Returned(m, NoNode)

\* variant of SELECT_TAB whose border branch always selects
doSelectTabBorderSetOnly(m, data) ==
    Bind(m.idMap[data.tabNode], LAMBDA tabNode :
    IF tabNode # NoNode /\ getType(m, tabNode) = "tab"
    THEN Bind(getParent(m, tabNode), LAMBDA parent :
         Bind(indexOf(getChildren(m, parent), tabNode), LAMBDA pos :
         IF getType(m, parent) = "border"
         THEN [m |-> setSelected(m, parent, pos), threw |-> FALSE, returnVal |-> NoNode]
         ELSE IF getType(m, parent) = "tabset"
         THEN [m |-> [setSelected(m, parent, pos) EXCEPT !.activeTabSet = parent],
               threw |-> FALSE, returnVal |-> NoNode]
         ELSE [m |-> m, threw |-> FALSE, returnVal |-> NoNode]))
    ELSE [m |-> m, threw |-> FALSE, returnVal |-> NoNode])

\* variant of SELECT_TAB that makes the tabset active only when the selection
\* changes
doSelectTabActiveOnChange(m, data) ==
    Bind(m.idMap[data.tabNode], LAMBDA tabNode :
    IF tabNode # NoNode /\ getType(m, tabNode) = "tab"
    THEN Bind(getParent(m, tabNode), LAMBDA parent :
         Bind(indexOf(getChildren(m, parent), tabNode), LAMBDA pos :
         IF getType(m, parent) = "border"
         THEN [m |-> setSelected(m, parent, IF getSelected(m, parent) = pos THEN 0 - 1 ELSE pos),
               threw |-> FALSE, returnVal |-> NoNode]
         ELSE IF getType(m, parent) = "tabset" /\ getSelected(m, parent) # pos
         THEN [m |-> [setSelected(m, parent, pos) EXCEPT !.activeTabSet = parent],
               threw |-> FALSE, returnVal |-> NoNode]
         ELSE [m |-> m, threw |-> FALSE, returnVal |-> NoNode]))
    ELSE [m |-> m, threw |-> FALSE, returnVal |-> NoNode])

\* case Actions.SELECT_TAB
doSelectTab(m, data) ==
    LET tabNode == m.idMap[data.tabNode]
    IN  IF isTabNode(m, tabNode)
        THEN LET parent == getParent(m, tabNode)
                 pos == indexOf(getChildren(m, parent), tabNode)
             IN  IF isBorderNode(m, parent)
                 THEN (IF getSelected(m, parent) = pos
                       THEN Returned(setSelected(m, parent, 0 - 1), NoNode)
                       ELSE Returned(setSelected(m, parent, pos), NoNode))
                 ELSE IF isTabSetNode(m, parent)
                 THEN LET m1 == IF getSelected(m, parent) # pos
                                THEN setSelected(m, parent, pos) ELSE m
                      IN  Returned([m1 EXCEPT !.activeTabSet = parent], NoNode)
                 ELSE Returned(m, NoNode)
        ELSE Returned(m, NoNode)

\* case Actions.SET_ACTIVE_TABSET
doSetActiveTabset(m, data) ==
    IF data.tabsetNode = Undefined
    THEN Returned([m EXCEPT !.activeTabSet = NoNode], NoNode)
    ELSE LET tabsetNode == m.idMap[data.tabsetNode]
         IN  IF isTabSetNode(m, tabsetNode)
             THEN Returned([m EXCEPT !.activeTabSet = tabsetNode], NoNode)
             ELSE Returned(m, NoNode)

\* weights[i] of a JavaScript array: undefined past its end
weightAt(weights, i) == IF i <= Len(weights) THEN weights[i] ELSE UndefinedNumber

\* the loop of ADJUST_WEIGHTS over the children
RECURSIVE setWeights(_, _, _, _)
setWeights(m, c, weights, i) ==
    IF i > Len(c) THEN m
    ELSE setWeights(setWeight(m, c[i], weightAt(weights, i)), c, weights, i + 1)

\* case Actions.ADJUST_WEIGHTS: no guard, row.getChildren() on undefined is
\* a TypeError
doAdjustWeights(m, data) ==
    LET row == m.idMap[data.nodeId]
    IN  IF row = NoNode THEN Thrown(m)
        ELSE Returned(setWeights(m, getChildren(m, row), data.weights, 1), NoNode)

\* case Actions.ADJUST_BORDER_SPLIT
doAdjustBorderSplit(m, data) ==
    LET node == m.idMap[data.node]
    IN  IF isBorderNode(m, node)
        THEN Returned([m EXCEPT !.nodes[node].size = data.pos], NoNode)
        ELSE Returned(m, NoNode)

\* variant of MAXIMIZE_TOGGLE that never clears the maximized tabset
doMaximizeToggleSetOnly(m, data) ==
    IF m.idMap[data.node] # NoNode /\ getType(m, m.idMap[data.node]) = "tabset"
    THEN [m |-> [m EXCEPT !.maximizedTabSet = m.idMap[data.node],
                          !.activeTabSet = m.idMap[data.node]],
          threw |-> FALSE, returnVal |-> NoNode]
    ELSE [m |-> m, threw |-> FALSE, returnVal |-> NoNode]

\* case Actions.MAXIMIZE_TOGGLE
doMaximizeToggle(m, data) ==
    LET node == m.idMap[data.node]
    IN  IF isTabSetNode(m, node)
        THEN (IF node = m.maximizedTabSet
              THEN Returned([m EXCEPT !.maximizedTabSet = NoNode], NoNode)
              ELSE Returned([m EXCEPT !.maximizedTabSet = node, !.activeTabSet = node], NoNode))
        ELSE Returned(m, NoNode)

\* AttributeDefinitions.update: every declared attribute the JSON has
updateAttributes(obj, json, declared) ==
    [k \in DOMAIN obj |-> IF k \in declared /\ k \in DOMAIN json THEN json[k] ELSE obj[k]]

\* the attributes each node kind declares, among those of the model
declaredAttributes(type) ==
    IF type = "tab" THEN {"name", "enableClose"}
    ELSE IF type = "tabset" THEN {"name", "selected", "weight", "enableDeleteWhenEmpty"}
    ELSE IF type = "row" THEN {"weight"}
    ELSE {"selected", "size"}

\* Model.updateAttrs
updateAttrs(m, json) ==
    [m EXCEPT !.attributes = updateAttributes(@, json, DOMAIN m.attributes)]

\* case Actions.UPDATE_MODEL_ATTRIBUTES
doUpdateModelAttributes(m, data) == Returned(updateAttrs(m, data.json), NoNode)

\* case Actions.UPDATE_NODE_ATTRIBUTES: no guard, node.updateAttrs on
\* undefined is a TypeError
doUpdateNodeAttributes(m, data) ==
    LET node == m.idMap[data.node]
    IN  IF node = NoNode THEN Thrown(m)
        ELSE Returned([m EXCEPT !.nodes[node] =
                        updateAttributes(@, data.json, declaredAttributes(getType(m, node)))],
                      NoNode)

\* the switch of doAction
doActionSwitch(m, action) ==
    IF action.type = "FlexLayout_AddNode" THEN doAddNode(m, action.data)
    ELSE IF action.type = "FlexLayout_MoveNode" THEN doMoveNode(m, action.data)
    ELSE IF action.type = "FlexLayout_DeleteTab" THEN doDeleteTab(m, action.data)
    ELSE IF action.type = "FlexLayout_DeleteTabset" THEN doDeleteTabset(m, action.data)
    ELSE IF action.type = "FlexLayout_RenameTab" THEN doRenameTab(m, action.data)
    ELSE IF action.type = "FlexLayout_SelectTab" THEN doSelectTab(m, action.data)
    ELSE IF action.type = "FlexLayout_SetActiveTabset" THEN doSetActiveTabset(m, action.data)
    ELSE IF action.type = "FlexLayout_AdjustWeights" THEN doAdjustWeights(m, action.data)
    ELSE IF action.type = "FlexLayout_AdjustBorderSplit" THEN doAdjustBorderSplit(m, action.data)
    ELSE IF action.type = "FlexLayout_MaximizeToggle" THEN doMaximizeToggle(m, action.data)
    ELSE IF action.type = "FlexLayout_UpdateModelAttributes"
         THEN doUpdateModelAttributes(m, action.data)
    ELSE IF action.type = "FlexLayout_UpdateNodeAttributes"
         THEN doUpdateNodeAttributes(m, action.data)
    ELSE Returned(m, NoNode)

\* what a change listener can observe of the model when it is called
Observed(m) ==
    [nodes |-> m.nodes, idMap |-> m.idMap, maximizedTabSet |-> m.maximizedTabSet,
     activeTabSet |-> m.activeTabSet]

\* the listener loop of doAction: each registered listener, in order, with
\* the action
notifyListeners(m, listeners, action) ==
    [k \in 1..Len(listeners) |->
        [listener |-> listeners[k], action |-> action, saw |-> Observed(m)]]

\* Model.doAction: the switch, then updateIdMap, then the listeners; an
\* exception in the switch leaves before both
doAction(m, listeners, action) ==
    Bind(doActionSwitch(m, action), LAMBDA r :
    IF r.threw
    THEN [m |-> r.m, threw |-> TRUE, returnVal |-> NoNode, notified |-> <<>>]
    ELSE Bind(updateIdMap(r.m), LAMBDA m1 :
         [m |-> m1, threw |-> FALSE, returnVal |-> r.returnVal,
          notified |-> notifyListeners(m1, listeners, action)]))

\* ------------------------------------------------------------------- Init
\* The document the model is loaded from:
\*   borders: [ border left: tabs b1, b2, b1 selected ]
\*   layout:  row [ tabset ts1: tabs t1, t2 (t2 not closeable);
\*                  tabset ts2: tab t3 (ts2 is kept when empty);
\*                  tabset ts3: no tabs ]
\* BorderSet.fromJson and RowNode.fromJson construct the nodes, borders
\* first; every constructor registers its node with Model.addNode.
RootId == GenIds[1]

Constructed ==
    [nodes |-> [n \in Nodes |->
        IF n = 1 THEN [FreeNode EXCEPT !.type = "border", !.id = "border_left",
                          !.children = <<2, 3>>, !.selected = 0]
        ELSE IF n = 2 THEN [FreeNode EXCEPT !.type = "tab", !.id = "b1", !.parent = 1, !.name = "B1"]
        ELSE IF n = 3 THEN [FreeNode EXCEPT !.type = "tab", !.id = "b2", !.parent = 1, !.name = "B2"]
        ELSE IF n = 4 THEN [FreeNode EXCEPT !.type = "row", !.id = RootId,
                              !.children = <<5, 8, 10>>, !.weight = 100]
        ELSE IF n = 5 THEN [FreeNode EXCEPT !.type = "tabset", !.id = "ts1", !.parent = 4,
                              !.children = <<6, 7>>, !.selected = 0, !.weight = 50]
        ELSE IF n = 6 THEN [FreeNode EXCEPT !.type = "tab", !.id = "t1", !.parent = 5, !.name = "One"]
        ELSE IF n = 7 THEN [FreeNode EXCEPT !.type = "tab", !.id = "t2", !.parent = 5, !.name = "Two",
                              !.enableClose = "false"]
        ELSE IF n = 8 THEN [FreeNode EXCEPT !.type = "tabset", !.id = "ts2", !.parent = 4,
                              !.children = <<9>>, !.selected = 0, !.weight = 50,
                              !.enableDeleteWhenEmpty = "false"]
        ELSE IF n = 9 THEN [FreeNode EXCEPT !.type = "tab", !.id = "t3", !.parent = 8, !.name = "Three"]
        ELSE IF n = 10 THEN [FreeNode EXCEPT !.type = "tabset", !.id = "ts3", !.parent = 4,
                              !.selected = 0 - 1, !.weight = 50]
        ELSE FreeNode],
     root |-> 4,
     borders |-> <<1>>,
     idMap |-> [id \in Ids |->
        IF id = "border_left" THEN 1 ELSE IF id = "b1" THEN 2 ELSE IF id = "b2" THEN 3
        ELSE IF id = RootId THEN 4 ELSE IF id = "ts1" THEN 5 ELSE IF id = "t1" THEN 6
        ELSE IF id = "t2" THEN 7 ELSE IF id = "ts2" THEN 8 ELSE IF id = "t3" THEN 9
        ELSE IF id = "ts3" THEN 10 ELSE NoNode],
     attributes |-> [tabEnableClose |-> "true", tabSetEnableDeleteWhenEmpty |-> "true",
                     tabSetAutoSelectTab |-> "true", borderAutoSelectTabWhenOpen |-> "true",
                     borderAutoSelectTabWhenClosed |-> "false",
                     rootOrientationVertical |-> "false"],
     maximizedTabSet |-> NoNode,
     activeTabSet |-> NoNode,
     nextNode |-> 11,
     uuid |-> 1]

\* Model.fromJson: the constructed tree, tidied; the index is not rebuilt
fromJson == tidy(Constructed)

\* ------------------------------------------------------- JSON documents
\* A JSON object is a record of all the keys its kind can have: a string key
\* that is absent is Undefined, a number key <<>> when absent and <<v>> when
\* set.  A tab is [id, name, enableClose]; a row, a tabset or a border is a
\* LayoutJson (a row uses type, id, weight and children only; the location of
\* a border is carried by its id, border_<location>).
\* LayoutJson is the object with the id and the children given and no other
\* key set.
LayoutJson(type, id, children) ==
    [type |-> type, id |-> id, weight |-> <<>>, selected |-> <<>>,
     enableDeleteWhenEmpty |-> Undefined, active |-> Undefined, maximized |-> Undefined,
     children |-> children]

\* the defaults of the global attributes (Model.createAttributeDefinitions);
\* those of the nodes are weight 100, selected 0 in a tabset and -1 in a
\* border
DefaultAttributes ==
    [tabEnableClose |-> "true", tabSetEnableDeleteWhenEmpty |-> "true",
     tabSetAutoSelectTab |-> "true", borderAutoSelectTabWhenOpen |-> "true",
     borderAutoSelectTabWhenClosed |-> "false", rootOrientationVertical |-> "false"]

\* new RowNode(model, json) / new TabSetNode(model, json) /
\* new BorderNode(location, json, model): the attributes are read from the
\* JSON (AttributeDefinitions.fromJson: the value, or the default), then
\* model.addNode(this) asks for the id, which Node.getId generates and stores
\* when the JSON has none
newNodeFromJson(m, json) ==
    addNode(
        [m EXCEPT
            !.nodes[m.nextNode] =
                [FreeNode EXCEPT
                    !.type = json.type,
                    !.id = IF json.id # Undefined THEN json.id ELSE nextUniqueId(m),
                    !.weight = IF json.type = "border" THEN UndefinedNumber
                               ELSE IF json.weight = <<>> THEN 100 ELSE json.weight[1],
                    !.selected = IF json.type = "row" THEN UndefinedNumber
                                 ELSE IF json.selected # <<>> THEN json.selected[1]
                                 ELSE IF json.type = "tabset" THEN 0 ELSE 0 - 1,
                    !.enableDeleteWhenEmpty = json.enableDeleteWhenEmpty],
            !.nextNode = @ + 1,
            !.uuid = IF json.id # Undefined THEN @ ELSE @ + 1],
        m.nextNode)

\* the loop of TabSetNode.fromJson / BorderNode.fromJson over the children
RECURSIVE tabsFromJson(_, _, _)
tabsFromJson(m, parent, jsons) ==
    IF jsons = <<>> THEN m
    ELSE tabsFromJson(addChild(newTabNode(m, Head(jsons)), parent, m.nextNode, <<>>),
                      parent, Tail(jsons))

\* TabSetNode.fromJson: the node is m.nextNode; an empty tabset has nothing
\* selected; the maximized and active flags set the model's pointers
tabSetNodeFromJson(m, json) ==
    Bind(m.nextNode, LAMBDA n :
    Bind(tabsFromJson(newNodeFromJson(m, json), n, json.children), LAMBDA m1 :
    Bind(IF getChildren(m1, n) = <<>> THEN setSelected(m1, n, 0 - 1) ELSE m1, LAMBDA m2 :
    Bind(IF json.maximized = "true" THEN setMaximizedTabset(m2, n) ELSE m2, LAMBDA m3 :
    IF json.active = "true" THEN setActiveTabset(m3, n) ELSE m3))))

\* RowNode.fromJson: the node is m.nextNode, the children follow it
RECURSIVE rowNodeFromJson(_, _)
RECURSIVE rowChildrenFromJson(_, _, _)
rowNodeFromJson(m, json) ==
    rowChildrenFromJson(newNodeFromJson(m, json), m.nextNode, json.children)
rowChildrenFromJson(m, row, jsons) ==
    IF jsons = <<>> THEN m
    ELSE rowChildrenFromJson(
            addChild(IF Head(jsons).type = "tabset" THEN tabSetNodeFromJson(m, Head(jsons))
                     ELSE rowNodeFromJson(m, Head(jsons)),
                     row, m.nextNode, <<>>),
            row, Tail(jsons))

\* BorderSet.fromJson: a border node for each entry, in order
RECURSIVE bordersFromJson(_, _)
bordersFromJson(m, jsons) ==
    IF jsons = <<>> THEN m
    ELSE bordersFromJson(
            [tabsFromJson(newNodeFromJson(m, Head(jsons)), m.nextNode, Head(jsons).children)
                EXCEPT !.borders = Append(@, m.nextNode)],
            Tail(jsons))

\* Model.fromJson up to its call of tidy: new Model() with no nodes, the
\* global attributes (the value, or the default), the borders, then the
\* layout
constructFromJson(json) ==
    Bind([nodes |-> [n \in Nodes |-> FreeNode], root |-> NoNode, borders |-> <<>>,
          idMap |-> [id \in Ids |-> NoNode],
          attributes |-> [k \in DOMAIN DefaultAttributes |->
              IF json.global[k] # Undefined THEN json.global[k] ELSE DefaultAttributes[k]],
          maximizedTabSet |-> NoNode, activeTabSet |-> NoNode, nextNode |-> 1, uuid |-> 0],
         LAMBDA m0 :
    Bind(bordersFromJson(m0, json.borders), LAMBDA m1 :
    [rowNodeFromJson(m1, json.layout) EXCEPT !.root = m1.nextNode]))

\* Model.fromJson(json)
modelFromJson(json) == tidy(constructFromJson(json))

\* TabNode.toJson, TabSetNode.toJson, RowNode.toJson, BorderNode.toJson: the
\* attributes the node stores (a number unless it is the default), then the
\* children
tabSetToJson(m, n) ==
    [LayoutJson(getType(m, n), getId(m, n),
                [k \in 1..Len(getChildren(m, n)) |->
                    [id |-> getId(m, getChildren(m, n)[k]),
                     name |-> m.nodes[getChildren(m, n)[k]].name,
                     enableClose |-> m.nodes[getChildren(m, n)[k]].enableClose]])
        EXCEPT !.weight = IF isBorderNode(m, n) \/ getWeight(m, n) = 100
                          THEN <<>> ELSE <<getWeight(m, n)>>,
               !.selected = IF getSelected(m, n) = (IF isTabSetNode(m, n) THEN 0 ELSE 0 - 1)
                            THEN <<>> ELSE <<getSelected(m, n)>>,
               !.enableDeleteWhenEmpty = m.nodes[n].enableDeleteWhenEmpty,
               !.active = IF isTabSetNode(m, n) /\ getActiveTabset(m) = n
                          THEN "true" ELSE Undefined,
               !.maximized = IF isTabSetNode(m, n) /\ isMaximized(m, n)
                             THEN "true" ELSE Undefined]

RECURSIVE rowToJson(_, _)
rowToJson(m, n) ==
    [LayoutJson("row", getId(m, n),
                [k \in 1..Len(getChildren(m, n)) |->
                    IF isRowNode(m, getChildren(m, n)[k]) THEN rowToJson(m, getChildren(m, n)[k])
                    ELSE tabSetToJson(m, getChildren(m, n)[k])])
        EXCEPT !.weight = IF getWeight(m, n) = 100 THEN <<>> ELSE <<getWeight(m, n)>>]

\* ------------------------------------------------------ drop-target resolution
\* The layout measures the rectangles and the document sets the drop flags: a
\* scene v has v.noDrop and v.noDivide (the nodes with enableDrop /
\* enableDivide false), v.enableEdgeDock and v.onAllowDrop (Undefined when no
\* predicate is set, else what the predicate answers: "true", "false", or
\* "center" for a predicate that allows only CENTER drops).
MaxX == 12
MaxY == 4

NoDropInfo == [node |-> NoNode, location |-> Undefined, index |-> 0 - 1]

\* the rectangle the layout has measured for a node: the border strip, the
\* root beside it, the two tabsets with a splitter between them; a maximized
\* tabset fills the root, a tab has the rectangle of its parent
RECURSIVE getRect(_, _)
getRect(m, n) ==
    IF isBorderNode(m, n) THEN [x |-> 0, y |-> 0, width |-> 1, height |-> 4]
    ELSE IF n = m.root \/ n = getMaximizedTabset(m)
    THEN [x |-> 2, y |-> 0, width |-> 10, height |-> 4]
    ELSE IF n = m.idMap["ts1"] THEN [x |-> 2, y |-> 0, width |-> 4, height |-> 4]
    ELSE IF n = m.idMap["ts2"] THEN [x |-> 8, y |-> 0, width |-> 4, height |-> 4]
    ELSE IF isTabNode(m, n) THEN getRect(m, getParent(m, n))
    ELSE [x |-> 0, y |-> 0, width |-> 0 - 1, height |-> 0 - 1]

\* Rect.contains
contains(r, x, y) ==
    r.x <= x /\ x <= r.x + r.width /\ r.y <= y /\ y <= r.y + r.height

\* canDockInto without the rule for a drop-disabled target
canDockIntoNoDropRule(v, m, dragNode, dropInfo, calls) ==
    IF dropInfo # NoDropInfo
    THEN IF dropInfo.location = "center" /\ getType(m, dragNode) = "tabset"
            /\ m.nodes[dragNode].name # Undefined
         THEN [ok |-> FALSE, calls |-> calls]
         ELSE IF dropInfo.location # "center" /\ dropInfo.node \in v.noDivide
         THEN [ok |-> FALSE, calls |-> calls]
         ELSE IF v.onAllowDrop # Undefined
         THEN [ok |-> \/ v.onAllowDrop = "true"
                      \/ v.onAllowDrop = "center" /\ dropInfo.location = "center",
               calls |-> Append(calls, dropInfo)]
         ELSE [ok |-> TRUE, calls |-> calls]
    ELSE [ok |-> TRUE, calls |-> calls]

\* canDockInto asking the predicate of the model before the structural rules
canDockIntoVetoFirst(v, m, dragNode, dropInfo, calls) ==
    IF dropInfo # NoDropInfo
    THEN IF v.onAllowDrop # Undefined
         THEN [ok |-> \/ v.onAllowDrop = "true"
                      \/ v.onAllowDrop = "center" /\ dropInfo.location = "center",
               calls |-> Append(calls, dropInfo)]
         ELSE IF dropInfo.location = "center" /\ dropInfo.node \in v.noDrop
         THEN [ok |-> FALSE, calls |-> calls]
         ELSE IF dropInfo.location = "center" /\ getType(m, dragNode) = "tabset"
                 /\ m.nodes[dragNode].name # Undefined
         THEN [ok |-> FALSE, calls |-> calls]
         ELSE IF dropInfo.location # "center" /\ dropInfo.node \in v.noDivide
         THEN [ok |-> FALSE, calls |-> calls]
         ELSE [ok |-> TRUE, calls |-> calls]
    ELSE [ok |-> TRUE, calls |-> calls]

\* Node.canDockInto(dragNode, dropInfo): the structural rules, then the
\* predicate of the model; calls are the DropInfos the predicate was asked
\* about so far
canDockInto(v, m, dragNode, dropInfo, calls) ==
    IF dropInfo # NoDropInfo
    THEN IF dropInfo.location = "center" /\ dropInfo.node \in v.noDrop
         THEN [ok |-> FALSE, calls |-> calls]
         ELSE IF dropInfo.location = "center" /\ getType(m, dragNode) = "tabset"
                 /\ m.nodes[dragNode].name # Undefined
         THEN [ok |-> FALSE, calls |-> calls]
         ELSE IF dropInfo.location # "center" /\ dropInfo.node \in v.noDivide
         THEN [ok |-> FALSE, calls |-> calls]
         ELSE IF v.onAllowDrop # Undefined
         THEN [ok |-> \/ v.onAllowDrop = "true"
                      \/ v.onAllowDrop = "center" /\ dropInfo.location = "center",
               calls |-> Append(calls, dropInfo)]
         ELSE [ok |-> TRUE, calls |-> calls]
    ELSE [ok |-> TRUE, calls |-> calls]

\* canDrop(dragNode, x, y) of a node: a tabset or border splits its rectangle
\* into the 20% bands of the four edges and the centre, the root row has its
\* edge-dock bands, any other node is no drop target; the DropInfo then has
\* to pass canDockInto
canDrop(v, m, n, dragNode, x, y, calls) ==
    LET r == getRect(m, n)
        onlyCenter == Len(getChildren(m, n)) = 1 /\ getChildren(m, n)[1] \in v.noDivide
        location ==
            IF onlyCenter THEN "center"
            ELSE IF 5 * (x - r.x) < r.width THEN "left"
            ELSE IF 5 * (r.x + r.width - x) < r.width THEN "right"
            ELSE IF 5 * (y - r.y) < r.height THEN "top"
            ELSE IF 5 * (r.y + r.height - y) < r.height THEN "bottom"
            ELSE "center"
        edge ==
            IF x = r.x /\ 2 * y = 2 * r.y + r.height THEN "left"
            ELSE IF x = r.x + r.width /\ 2 * y = 2 * r.y + r.height THEN "right"
            ELSE IF y = r.y /\ 2 * x = 2 * r.x + r.width THEN "top"
            ELSE IF y = r.y + r.height /\ 2 * x = 2 * r.x + r.width THEN "bottom"
            ELSE Undefined
        dropInfo ==
            IF (isTabSetNode(m, n) \/ isBorderNode(m, n)) /\ contains(r, x, y)
            THEN [node |-> n, location |-> location, index |-> 0 - 1]
            ELSE IF isRowNode(m, n) /\ n = m.root /\ v.enableEdgeDock /\ edge # Undefined
            THEN [node |-> n, location |-> edge, index |-> 0 - 1]
            ELSE NoDropInfo
    IN  Bind(canDockInto(v, m, dragNode, dropInfo, calls), LAMBDA g :
        [dropInfo |-> IF g.ok THEN dropInfo ELSE NoDropInfo, calls |-> g.calls])

\* Node.findDropTargetNode(windowId, dragNode, x, y)
RECURSIVE nodeFindDropTargetNode(_, _, _, _, _, _, _)
RECURSIVE childrenFindDropTargetNode(_, _, _, _, _, _, _)
nodeFindDropTargetNode(v, m, n, dragNode, x, y, calls) ==
    IF contains(getRect(m, n), x, y)
    THEN IF getMaximizedTabset(m) # NoNode
         THEN canDrop(v, m, getMaximizedTabset(m), dragNode, x, y, calls)
         ELSE Bind(canDrop(v, m, n, dragNode, x, y, calls), LAMBDA rtn :
              IF rtn.dropInfo = NoDropInfo
              THEN childrenFindDropTargetNode(v, m, getChildren(m, n), dragNode, x, y,
                                              rtn.calls)
              ELSE rtn)
    ELSE [dropInfo |-> NoDropInfo, calls |-> calls]

\* the loop over the children: the first child with a drop target wins
childrenFindDropTargetNode(v, m, children, dragNode, x, y, calls) ==
    IF children = <<>> THEN [dropInfo |-> NoDropInfo, calls |-> calls]
    ELSE Bind(nodeFindDropTargetNode(v, m, Head(children), dragNode, x, y, calls),
              LAMBDA rtn :
              IF rtn.dropInfo # NoDropInfo THEN rtn
              ELSE childrenFindDropTargetNode(v, m, Tail(children), dragNode, x, y,
                                              rtn.calls))

\* BorderSet.findDropTargetNode(dragNode, x, y): the first border that takes
\* the drop
RECURSIVE bordersFindDropTargetNode(_, _, _, _, _, _, _)
bordersFindDropTargetNode(v, m, bs, dragNode, x, y, calls) ==
    IF bs = <<>> THEN [dropInfo |-> NoDropInfo, calls |-> calls]
    ELSE Bind(canDrop(v, m, Head(bs), dragNode, x, y, calls), LAMBDA rtn :
         IF rtn.dropInfo # NoDropInfo THEN rtn
         ELSE bordersFindDropTargetNode(v, m, Tail(bs), dragNode, x, y, rtn.calls))

\* Model.findDropTargetNode: the root's answer, else (??) the borders'
findDropTargetNode(v, m, dragNode, x, y) ==
    Bind(nodeFindDropTargetNode(v, m, m.root, dragNode, x, y, <<>>), LAMBDA rtn :
    IF rtn.dropInfo # NoDropInfo THEN rtn
    ELSE bordersFindDropTargetNode(v, m, m.borders, dragNode, x, y, rtn.calls))

\* Model.toJson
toJson(m) ==
    [global |-> [k \in DOMAIN m.attributes |->
                    IF m.attributes[k] = DefaultAttributes[k] THEN Undefined
                    ELSE m.attributes[k]],
     borders |-> [k \in 1..Len(m.borders) |-> tabSetToJson(m, m.borders[k])],
     layout |-> rowToJson(m, m.root)]

\* ------------------------------------------------ Layout, OptimizedLayout
\* A Layout mounted on the model inside an OptimizedLayout. Its view has
\*   onAction        the onAction prop: "none", or the callback given
\*   previousModel   Layout.previousModel: Undefined, or "model" (this model)
\*   dragState       LayoutInternal.dragState: the drag node, NoNode when unset
\*   dragEnterCount, dragging, dropInfo, outlineDiv   the fields of the Layout
\*   reported        the last value passed to onDragStateChange
\*   isDragging, tabs   the state of OptimizedLayout (tabs: id -> TabInfo)
\*   prevTabs        tabs as the last model change found it
\*   at              where the pointer of the drag gesture is
\*   call            the last Layout.doAction call, <<>> before the first: the
\*                   action and the model it found

\* the change listener a Layout registers
OnModelChange == "onModelChange"

\* TabNode.isSelected: the parent's selected node is this tab
isSelected(m, n) ==
    LET p == getParent(m, n)
    IN  /\ p # NoNode
        /\ getSelected(m, p) >= 0
        /\ getSelected(m, p) < Len(getChildren(m, p))
        /\ getChildren(m, p)[getSelected(m, p) + 1] = n

\* getContentRect of a tabset or border: each has its own rectangle, named
\* here by the node; Rect.empty() for no parent
getContentRect(m, p) == p

createTabInfo(m, n) ==
    [node |-> n, rect |-> getContentRect(m, getParent(m, n)), visible |-> isSelected(m, n)]

\* model.visitNodes collecting the TabNodes by id (a later node of the same
\* id replaces an earlier one)
modelTabNodes(m) ==
    LET v == visitNodes(m)
        tabAt == {k \in 1..Len(v) : isTabNode(m, v[k])}
        last(id) == CHOOSE k \in tabAt :
                        /\ getId(m, v[k]) = id
                        /\ \A j \in tabAt : getId(m, v[j]) = id => j <= k
    IN  [id \in {getId(m, v[k]) : k \in tabAt} |-> v[last(id)]]

\* OptimizedLayout.syncTabsWithModel
syncTabsWithModel(m, prevTabs) ==
    Bind(modelTabNodes(m), LAMBDA tabNodes :
    LET nextTabs == [id \in DOMAIN tabNodes |->
                        IF id \in DOMAIN prevTabs
                        THEN [prevTabs[id] EXCEPT !.node = tabNodes[id]]
                        ELSE createTabInfo(m, tabNodes[id])]
        changed == DOMAIN tabNodes # DOMAIN prevTabs
    IN  IF ~changed THEN prevTabs ELSE nextTabs)

\* handleModelChange without the sync: every entry shows what the model had
\* before
handleModelChangeNoSync(m, prevTabs) ==
    [id \in DOMAIN prevTabs |->
        [prevTabs[id] EXCEPT !.visible = isSelected(m, prevTabs[id].node)]]

\* OptimizedLayout.handleModelChange: the sync, then visible of every entry
\* is isSelected() of its node
handleModelChange(m, prevTabs) ==
    Bind(syncTabsWithModel(m, prevTabs), LAMBDA synced :
    [id \in DOMAIN synced |->
        [synced[id] EXCEPT !.visible = isSelected(m, synced[id].node)]])

\* Tab of the standard Layout: whether the style of the tab's content has
\* display none (selected is the prop the Layout passes, node.isSelected())
tabDisplayNone(m, node) ==
    Bind(getParent(m, node), LAMBDA parentNode :
    \/ ~isSelected(m, node)
    \/ /\ isTabSetNode(m, parentNode)
       /\ getMaximizedTabset(m) # NoNode
       /\ ~isMaximized(m, parentNode))

\* TabPanel with the maximize test left out
isHiddenIgnoresMaximize(m, tabInfo) == ~tabInfo.visible

\* TabContainer / TabPanel: whether the panel of an entry is hidden
isHidden(m, tabInfo) ==
    LET parent == getParent(m, tabInfo.node)
        hasMaximizedTabset == getMaximizedTabset(m) # NoNode
    IN  IF hasMaximizedTabset
        THEN ~(isTabSetNode(m, parent) /\ isMaximized(m, parent) /\ tabInfo.visible)
        ELSE ~tabInfo.visible

\* TabPanel: the pointer-events style of the panel
pointerEvents(v, m, tabInfo) ==
    IF ~isHidden(m, tabInfo) /\ ~v.isDragging THEN "auto" ELSE "none"

\* the onAction callbacks given to the Layout: "veto" returns undefined for a
\* DeleteTab, "replace" returns a SelectTab of the tab in its place; every
\* other action is returned as it is. The result is <<>> for undefined, else
\* <<the action returned>>
onAction(v, action) ==
    IF v.onAction = "veto" /\ action.type = "FlexLayout_DeleteTab" THEN <<>>
    ELSE IF v.onAction = "replace" /\ action.type = "FlexLayout_DeleteTab"
    THEN <<[type |-> "FlexLayout_SelectTab", data |-> [tabNode |-> action.data.node]]>>
    ELSE <<action>>

\* Layout.doAction that applies the action whatever onAction returns
layoutDoActionIgnoresOutcome(v, m, listeners, action) ==
    doAction(m, listeners, action)

\* Layout.doAction
layoutDoAction(v, m, listeners, action) ==
    IF v.onAction # "none"
    THEN Bind(onAction(v, action), LAMBDA returned :
         IF returned # <<>>
         THEN doAction(m, listeners, returned[1])
         ELSE [m |-> m, threw |-> FALSE, returnVal |-> NoNode, notified |-> <<>>])
    ELSE doAction(m, listeners, action)

\* the path fields of the nodes as the constructors leave them (Node: path = "")
NoPaths == [n \in 1..MaxNodes |-> ""]

\* Node.setPaths(path) on node n: each child gets the path of n, the prefix
\* of its kind and its index, then sets the paths below it
RECURSIVE setPaths(_, _, _, _)
RECURSIVE childrenSetPaths(_, _, _, _, _)
setPaths(m, paths, n, path) == childrenSetPaths(m, paths, getChildren(m, n), 0, path)
childrenSetPaths(m, paths, children, i, path) ==
    IF children = <<>> THEN paths
    ELSE Bind(Head(children), LAMBDA node :
         Bind(IF getType(m, node) = "row"
              THEN (IF getOrientation(m, node) = "vert"
                    THEN path \o "/c" \o ToString(i)
                    ELSE path \o "/r" \o ToString(i))
              ELSE IF getType(m, node) = "tabset" THEN path \o "/ts" \o ToString(i)
              ELSE IF getType(m, node) = "tab" THEN path \o "/t" \o ToString(i)
              ELSE path, LAMBDA newPath :
         childrenSetPaths(m, setPaths(m, [paths EXCEPT ![node] = newPath], node, newPath),
                          Tail(children), i + 1, path)))

\* BorderSet.setPaths: each border gets "/border/" and its location (the
\* borders here are at the left), its tabs that path, "/t" and their index
RECURSIVE borderSetSetPaths(_, _, _)
borderSetSetPaths(m, paths, bs) ==
    IF bs = <<>> THEN paths
    ELSE borderSetSetPaths(m, setPaths(m, [paths EXCEPT ![Head(bs)] = "/border/left"],
                                       Head(bs), "/border/left"), Tail(bs))

\* the tree walks at the start of Layout.render: the paths are set from the
\* root and from the borders (the root keeps its own path)
render(v, m) ==
    [v EXCEPT !.paths = borderSetSetPaths(m, setPaths(m, v.paths, m.root, ""), m.borders)]

\* Layout.onModelChange for each registration the model called, each calling
\* the onModelChange prop (OptimizedLayout.handleModelChange), which finds the
\* paths of the last render (seenPaths); the redraw it asks for renders the
\* layout again when the handlers have returned
onModelChange(v, m, calls) ==
    IF \E k \in 1..Len(calls) : calls[k].listener = OnModelChange
    THEN render([v EXCEPT !.seenPaths = v.paths, !.prevTabs = v.tabs,
                          !.tabs = handleModelChange(m, v.tabs)], m)
    ELSE v

\* Layout.clearDragLocal
clearDragLocal(v) ==
    [v EXCEPT !.dragEnterCount = 0, !.dragging = FALSE, !.reported = "false",
              !.isDragging = FALSE, !.outlineDiv = FALSE]

\* Layout.clearDragMain
clearDragMain(v) == clearDragLocal([v EXCEPT !.dragState = NoNode])

\* Layout.onDragEnter: a drag of this layout gets its outline and is reported
onDragEnter(v) ==
    IF v.dragState # NoNode
    THEN [v EXCEPT !.dropInfo = NoDropInfo, !.outlineDiv = TRUE, !.dragging = TRUE,
                   !.reported = "true", !.isDragging = TRUE]
    ELSE v

\* Layout.onDragEnterRaw
onDragEnterRaw(v) ==
    Bind([v EXCEPT !.dragEnterCount = @ + 1], LAMBDA v1 :
    IF v1.dragEnterCount = 1 THEN onDragEnter(v1) ELSE v1)

\* Layout.onDragLeave
onDragLeave(v) == IF v.dragging THEN clearDragLocal(v) ELSE v

\* Layout.onDragLeaveRaw; relatedTarget is where the pointer went: "layout"
\* (an element of this layout), "tabContainer" (the sibling TabContainer),
\* or Undefined (null, or an element elsewhere)
onDragLeaveRaw(v, relatedTarget) ==
    Bind([v EXCEPT !.dragEnterCount = @ - 1], LAMBDA v1 :
    IF v1.dragEnterCount = 0
    THEN IF relatedTarget \in {"layout", "tabContainer"}
         THEN [v1 EXCEPT !.dragEnterCount = 1]
         ELSE onDragLeave(v1)
    ELSE v1)

\* Layout.onDragOver: the drop target under the pointer, kept when there is one
onDragOver(v, m, x, y) ==
    IF v.dragging
    THEN Bind(findDropTargetNode(v, m, v.dragState, x, y).dropInfo, LAMBDA dropInfo :
         IF dropInfo # NoDropInfo THEN [v EXCEPT !.dropInfo = dropInfo] ELSE v)
    ELSE v

\* Layout.onDrop: the action of the drop target goes through doAction, then
\* the drag is cleared; an exception of doAction leaves before that. The
\* result has the view and the doAction call made, if one was made
onDrop(v, m, listeners) ==
    IF v.dragging
    THEN IF v.dropInfo # NoDropInfo
         THEN Bind([type |-> "FlexLayout_MoveNode",
                    data |-> [fromNode |-> getId(m, v.dragState),
                              toNode |-> getId(m, v.dropInfo.node),
                              location |-> v.dropInfo.location,
                              index |-> v.dropInfo.index, select |-> Undefined]],
              LAMBDA action :
              Bind(layoutDoAction(v, m, listeners, action), LAMBDA r :
              [called |-> TRUE, r |-> r, action |-> action,
               v |-> IF r.threw THEN v
                     ELSE clearDragMain(onModelChange(v, r.m, r.notified))]))
         ELSE [called |-> FALSE, v |-> clearDragMain(v)]
    ELSE [called |-> FALSE, v |-> [v EXCEPT !.dragEnterCount = 0]]

\* the dragend event at the element the drag started on: a tab button clears
\* the drag, the tab strip of a tabset has no handler for it
onDragEnd(v, m) ==
    IF v.source # NoNode /\ isTabNode(m, v.source) THEN clearDragMain(v) ELSE v

Init ==
    /\ nodes = fromJson.nodes
    /\ root = fromJson.root
    /\ borders = fromJson.borders
    /\ idMap = fromJson.idMap
    /\ attributes = fromJson.attributes
    /\ maximizedTabSet = fromJson.maximizedTabSet
    /\ activeTabSet = fromJson.activeTabSet
    /\ nextNode = fromJson.nextNode
    /\ uuid = fromJson.uuid
    /\ changeListeners = <<"L1">>
    /\ trace = <<>>
    /\ outcome = [threw |-> FALSE, returnVal |-> NoNode]
    /\ notified = <<>>
    /\ steps = 0
    /\ view = NoView

\* ----------------------------------------------------------------- inputs
TabIdInputs == {"t1", "t2", "t3", "b1", "b2", "n1"}
TabSetIdInputs == {"ts1", "ts2", "ts3", GenIds[2]}
AnyIdInputs == TabIdInputs \cup TabSetIdInputs \cup {RootId, "border_left", UnknownId}
\* one id of each kind of node, and one of no node
KindIdInputs == {"t1", "ts1", RootId, "border_left", UnknownId}

DropArgs ==
    {[location |-> "center", index |-> 0 - 1, select |-> Undefined],
     [location |-> "center", index |-> 0 - 1, select |-> "true"],
     [location |-> "center", index |-> 0, select |-> "false"],
     [location |-> "center", index |-> 1, select |-> "true"],
     [location |-> "left", index |-> 0 - 1, select |-> Undefined],
     [location |-> "right", index |-> 0 - 1, select |-> Undefined],
     [location |-> "top", index |-> 0 - 1, select |-> Undefined],
     [location |-> "bottom", index |-> 0 - 1, select |-> Undefined]}
CenterAppend == [location |-> "center", index |-> 0 - 1, select |-> Undefined]

NewTabJson == [id |-> "n1", name |-> "New", enableClose |-> Undefined]
NoIdTabJson == [id |-> Undefined, name |-> "New", enableClose |-> Undefined]
DuplicateTabJson == [id |-> "t1", name |-> "New", enableClose |-> Undefined]
\* a tab with the id that a tabset of the loaded document had
ReusedIdTabJson == [id |-> "ts3", name |-> "New", enableClose |-> Undefined]

DropTargetInputs == {"ts1", "ts2", "border_left", RootId}

\* (json, toNode, drop arguments) of the AddNode actions dispatched
AddNodeInputs ==
    ({NewTabJson} \X DropTargetInputs \X DropArgs)
    \cup ({NoIdTabJson} \X {"ts1", GenIds[2]} \X {CenterAppend})
    \cup ({NewTabJson, DuplicateTabJson} \X {"ts1", "ts3", "t1", UnknownId} \X {CenterAppend})
    \cup ({ReusedIdTabJson} \X {"border_left"} \X {CenterAppend})

\* (fromNode, toNode, drop arguments) of the MoveNode actions dispatched: a
\* tab or a tabset onto every kind of target, and the pairs with an unknown
\* or wrong-kind end (a row is moved only there)
MoveNodeInputs ==
    ({"t1", "b1", "n1", "ts1"} \X DropTargetInputs \X DropArgs)
    \cup ({"t3", "ts2"} \X {"ts1", "border_left", RootId}
              \X {CenterAppend, [location |-> "left", index |-> 0 - 1, select |-> Undefined]})
    \cup ({"t1", "ts1", "ts3"} \X {"ts3", GenIds[2]} \X {CenterAppend})
    \cup ({"t1", "ts1", "ts2", RootId} \X {UnknownId, "t2"} \X {CenterAppend})
    \cup ({UnknownId, "border_left"} \X {"ts1", UnknownId} \X {CenterAppend})

WeightsInputs == {<<40, 60>>, <<30, 30, 40, 50>>}
ModelJsonInputs == {[tabEnableClose |-> "false"], [tabSetEnableDeleteWhenEmpty |-> "false"]}
NodeJsonInputs == {[enableClose |-> "false"], [enableDeleteWhenEmpty |-> "false", name |-> "X"]}

\* ------------------------------------------------------------------ actions
\* one call model.doAction(action)
Dispatch(action) ==
    /\ \E r \in {doAction(Model, changeListeners, action)} :
           /\ nodes' = r.m.nodes
           /\ root' = r.m.root
           /\ borders' = r.m.borders
           /\ idMap' = r.m.idMap
           /\ attributes' = r.m.attributes
           /\ maximizedTabSet' = r.m.maximizedTabSet
           /\ activeTabSet' = r.m.activeTabSet
           /\ nextNode' = r.m.nextNode
           /\ uuid' = r.m.uuid
           /\ outcome' = [threw |-> r.threw, returnVal |-> r.returnVal]
           /\ notified' = r.notified
    /\ trace' = Append(trace, [action |-> action, m |-> Model,
                                changeListeners |-> changeListeners])
    /\ steps' = steps + 1
    /\ UNCHANGED <<changeListeners, view>>

AddNode ==
    /\ steps < MaxSteps
    /\ \E i \in AddNodeInputs :
            Dispatch([type |-> "FlexLayout_AddNode",
                      data |-> [json |-> i[1], toNode |-> i[2], location |-> i[3].location,
                                index |-> i[3].index, select |-> i[3].select]])

MoveNode ==
    /\ steps < MaxSteps
    /\ \E i \in MoveNodeInputs :
            Dispatch([type |-> "FlexLayout_MoveNode",
                      data |-> [fromNode |-> i[1], toNode |-> i[2], location |-> i[3].location,
                                index |-> i[3].index, select |-> i[3].select]])

DeleteTab ==
    /\ steps < MaxSteps
    /\ \E id \in AnyIdInputs :
            Dispatch([type |-> "FlexLayout_DeleteTab", data |-> [node |-> id]])

DeleteTabset ==
    /\ steps < MaxSteps
    /\ \E id \in AnyIdInputs :
            Dispatch([type |-> "FlexLayout_DeleteTabset", data |-> [node |-> id]])

RenameTab ==
    /\ steps < MaxSteps
    /\ \E id \in KindIdInputs :
            Dispatch([type |-> "FlexLayout_RenameTab", data |-> [node |-> id, text |-> "X"]])

SelectTab ==
    /\ steps < MaxSteps
    /\ \E id \in AnyIdInputs :
            Dispatch([type |-> "FlexLayout_SelectTab", data |-> [tabNode |-> id]])

SetActiveTabset ==
    /\ steps < MaxSteps
    /\ \E id \in AnyIdInputs \cup {Undefined} :
            Dispatch([type |-> "FlexLayout_SetActiveTabset", data |-> [tabsetNode |-> id]])

AdjustWeights ==
    /\ steps < MaxSteps
    /\ \E id \in KindIdInputs, w \in WeightsInputs :
            Dispatch([type |-> "FlexLayout_AdjustWeights", data |-> [nodeId |-> id, weights |-> w]])

AdjustBorderSplit ==
    /\ steps < MaxSteps
    /\ \E id \in KindIdInputs :
            Dispatch([type |-> "FlexLayout_AdjustBorderSplit", data |-> [node |-> id, pos |-> 120]])

MaximizeToggle ==
    /\ steps < MaxSteps
    /\ \E id \in AnyIdInputs :
            Dispatch([type |-> "FlexLayout_MaximizeToggle", data |-> [node |-> id]])

UpdateModelAttributes ==
    /\ steps < MaxSteps
    /\ \E json \in ModelJsonInputs :
            Dispatch([type |-> "FlexLayout_UpdateModelAttributes", data |-> [json |-> json]])

UpdateNodeAttributes ==
    /\ steps < MaxSteps
    /\ \E id \in KindIdInputs, json \in NodeJsonInputs :
            Dispatch([type |-> "FlexLayout_UpdateNodeAttributes", data |-> [node |-> id, json |-> json]])

\* Model.addChangeListener
AddChangeListener ==
    /\ steps < MaxSteps
    /\ Len(changeListeners) < MaxListeners
    /\ \E listener \in Listeners : changeListeners' = Append(changeListeners, listener)
    /\ steps' = steps + 1
    /\ UNCHANGED <<nodes, root, borders, idMap, attributes, maximizedTabSet, activeTabSet,
                   nextNode, uuid, trace, outcome, notified, view>>

\* Model.removeChangeListener: the first registration of the listener goes
RemoveChangeListener ==
    /\ steps < MaxSteps
    /\ \E listener \in Listeners :
        LET pos == indexOf(changeListeners, listener)
        IN  changeListeners' = IF pos # 0 - 1 THEN spliceRemove(changeListeners, pos)
                               ELSE changeListeners
    /\ steps' = steps + 1
    /\ UNCHANGED <<nodes, root, borders, idMap, attributes, maximizedTabSet, activeTabSet,
                   nextNode, uuid, trace, outcome, notified, view>>

Next ==
    \/ AddNode
    \/ MoveNode
    \/ DeleteTab
    \/ DeleteTabset
    \/ RenameTab
    \/ SelectTab
    \/ SetActiveTabset
    \/ AdjustWeights
    \/ AdjustBorderSplit
    \/ MaximizeToggle
    \/ UpdateModelAttributes
    \/ UpdateNodeAttributes
    \/ AddChangeListener
    \/ RemoveChangeListener

Spec == Init /\ [][Next]_vars

\* ------------------------------------------------- documents and their model
\* The JSON documents models are loaded from, and the calls a client makes
\* on a freshly loaded model: toJson, tidy and DeleteTabset.
Docs ==
    LET tab(id) == [id |-> id, name |-> id, enableClose |-> Undefined]
        tabset(id, children) == LayoutJson("tabset", id, children)
        row(id, children) == LayoutJson("row", id, children)
        layout(r) == [global |-> [k \in DOMAIN DefaultAttributes |-> Undefined],
                      borders |-> <<>>, layout |-> r]
    IN
    << \* one tabset with two tabs, the row without an id
       layout(row(Undefined, <<tabset("ts1", <<tab("t1"), tab("t2")>>)>>)),
       \* every id, weights and a selection given
       layout(row("r1",
           <<[tabset("ts1", <<tab("t1"), tab("t2")>>)
                 EXCEPT !.weight = <<40>>, !.selected = <<1>>],
             [tabset("ts2", <<tab("t3")>>) EXCEPT !.weight = <<60>>]>>)),
       \* a row around the only tabset
       layout(row("r1", <<row("r2", <<tabset("ts1", <<tab("t1")>>)>>)>>)),
       \* the root's only child is a row of two tabsets
       layout(row("r1", <<row("r2", <<tabset("ts1", <<tab("t1")>>),
                                      tabset("ts2", <<tab("t2")>>)>>)>>)),
       \* rows nested three deep, with weights
       layout(row("r1",
           <<[row("r2",
                 <<row(Undefined,
                      <<[tabset("ts1", <<tab("t1")>>) EXCEPT !.weight = <<30>>],
                        [tabset("ts2", <<tab("t2")>>) EXCEPT !.weight = <<10>>]>>)>>)
                 EXCEPT !.weight = <<80>>]>>)),
       \* no tabset at all
       layout(row("r1", <<>>)),
       \* an empty tabset beside a tabset
       layout(row("r1", <<tabset("ts1", <<tab("t1")>>), tabset("ts3", <<>>)>>)),
       \* an empty tabset that is kept when empty
       layout(row("r1",
           <<tabset("ts1", <<tab("t1")>>),
             [tabset("ts2", <<>>) EXCEPT !.enableDeleteWhenEmpty = "false"]>>)),
       \* a tab that cannot be closed
       layout(row("r1",
           <<tabset("ts1", <<tab("t1"), [tab("t2") EXCEPT !.enableClose = "false"]>>)>>)),
       \* a tabset beside a row of two
       layout(row("r1", <<tabset("ts1", <<tab("t1")>>),
                          row("r2", <<tabset("ts2", <<tab("t2")>>),
                                      tabset("ts3", <<tab("t3")>>)>>)>>)),
       \* an active and a maximized tabset, a global attribute
       [layout(row("r1",
           <<[tabset("ts1", <<tab("t1")>>) EXCEPT !.active = "true"],
             [tabset("ts2", <<tab("t2")>>) EXCEPT !.maximized = "true"]>>))
           EXCEPT !.global.tabEnableClose = "false"],
       \* the document of Constructed
       [layout(row(Undefined,
           <<[tabset("ts1", <<[tab("t1") EXCEPT !.name = "One"],
                              [tab("t2") EXCEPT !.name = "Two", !.enableClose = "false"]>>)
                 EXCEPT !.weight = <<50>>],
             [tabset("ts2", <<[tab("t3") EXCEPT !.name = "Three"]>>)
                 EXCEPT !.weight = <<50>>, !.enableDeleteWhenEmpty = "false"],
             [tabset("ts3", <<>>) EXCEPT !.weight = <<50>>]>>))
           EXCEPT !.borders =
               <<[LayoutJson("border", "border_left",
                             <<[tab("b1") EXCEPT !.name = "B1"],
                               [tab("b2") EXCEPT !.name = "B2"]>>)
                     EXCEPT !.selected = <<0>>]>>] >>

\* Model.fromJson(doc) has returned; the call is the first of the trace, with
\* the tree its tidy found
InitDocs ==
    \E d \in 1..Len(Docs) : \E m \in {modelFromJson(Docs[d])} :
        /\ nodes = m.nodes
        /\ root = m.root
        /\ borders = m.borders
        /\ idMap = m.idMap
        /\ attributes = m.attributes
        /\ maximizedTabSet = m.maximizedTabSet
        /\ activeTabSet = m.activeTabSet
        /\ nextNode = m.nextNode
        /\ uuid = m.uuid
        /\ changeListeners = <<>>
        /\ trace = <<[action |-> [type |-> "Model.fromJson", data |-> [json |-> Docs[d]]],
                      m |-> constructFromJson(Docs[d]), changeListeners |-> <<>>]>>
        /\ outcome = [threw |-> FALSE, returnVal |-> NoNode]
        /\ notified = <<>>
        /\ steps = 0
        /\ view = NoView

\* one call model.tidy()
Tidy ==
    /\ steps < MaxSteps
    /\ \E m \in {tidy(Model)} :
           /\ nodes' = m.nodes
           /\ root' = m.root
           /\ borders' = m.borders
           /\ idMap' = m.idMap
           /\ attributes' = m.attributes
           /\ maximizedTabSet' = m.maximizedTabSet
           /\ activeTabSet' = m.activeTabSet
           /\ nextNode' = m.nextNode
           /\ uuid' = m.uuid
    /\ trace' = Append(trace, [action |-> [type |-> "Model.tidy", data |-> [node |-> Undefined]],
                                m |-> Model, changeListeners |-> changeListeners])
    /\ outcome' = [threw |-> FALSE, returnVal |-> NoNode]
    /\ notified' = <<>>
    /\ steps' = steps + 1
    /\ UNCHANGED <<changeListeners, view>>

\* one call model.toJson(): the model is left as it is
ToJson ==
    /\ steps < MaxSteps
    /\ trace' = Append(trace, [action |-> [type |-> "Model.toJson", data |-> [node |-> Undefined]],
                                m |-> Model, changeListeners |-> changeListeners])
    /\ outcome' = [threw |-> FALSE, returnVal |-> toJson(Model)]
    /\ notified' = <<>>
    /\ steps' = steps + 1
    /\ UNCHANGED <<nodes, root, borders, idMap, attributes, maximizedTabSet, activeTabSet,
                   changeListeners, nextNode, uuid, view>>

NextDocs ==
    \/ Tidy
    \/ ToJson
    \/ DeleteTabset

SpecDocs == InitDocs /\ [][NextDocs]_vars

\* --------------------------------------- specification of drop resolution
\* the model is loaded, a tabset may be maximized (MAXIMIZE_TOGGLE) or named,
\* the document has set the drop flags; no drop target has been asked for
InitDrop ==
    \E maximized \in {Undefined, "ts1", "ts2"}, named \in {Undefined, "ts2"},
       noDrop \in {{}, {"ts1"}, {"border_left"}}, noDivide \in {{}, {"ts2"}},
       edgeDock \in BOOLEAN :
    \E m0 \in {IF named = Undefined THEN fromJson
                ELSE [fromJson EXCEPT !.nodes[fromJson.idMap[named]].name = "X"]} :
    \E m \in {IF maximized = Undefined THEN m0
               ELSE doMaximizeToggle(m0, [node |-> maximized]).m} :
        /\ nodes = m.nodes
        /\ root = m.root
        /\ borders = m.borders
        /\ idMap = m.idMap
        /\ attributes = m.attributes
        /\ maximizedTabSet = m.maximizedTabSet
        /\ activeTabSet = m.activeTabSet
        /\ nextNode = m.nextNode
        /\ uuid = m.uuid
        /\ changeListeners = <<>>
        /\ trace = <<>>
        /\ outcome = [threw |-> FALSE, returnVal |-> NoNode]
        /\ notified = <<>>
        /\ steps = 0
        /\ view = [noDrop |-> {m.idMap[id] : id \in noDrop},
                   noDivide |-> {m.idMap[id] : id \in noDivide},
                   enableEdgeDock |-> edgeDock,
                   onAllowDrop |-> Undefined,
                   dragNode |-> NoNode, x |-> 0, y |-> 0,
                   dropInfo |-> NoDropInfo, calls |-> <<>>]

\* Model.setOnAllowDrop(onAllowDrop)
SetOnAllowDrop ==
    /\ \E answers \in {"true", "false", "center"} :
           view' = [view EXCEPT !.onAllowDrop = answers, !.dragNode = NoNode,
                                !.x = 0, !.y = 0,
                                !.dropInfo = NoDropInfo, !.calls = <<>>]
    /\ UNCHANGED <<nodes, root, borders, idMap, attributes, maximizedTabSet, activeTabSet,
                   changeListeners, nextNode, uuid, trace, outcome, notified, steps>>

\* one call model.findDropTargetNode(windowId, dragNode, x, y) during a drag
FindDropTargetNode ==
    /\ view.dragNode = NoNode
    /\ \E id \in {"t1", "t3", "b1", "ts1", "ts2"}, x \in 0..MaxX, y \in 0..MaxY :
       \E rtn \in {findDropTargetNode(view, Model, idMap[id], x, y)} :
           view' = [view EXCEPT !.dragNode = idMap[id], !.x = x, !.y = y,
                                !.dropInfo = rtn.dropInfo, !.calls = rtn.calls]
    /\ UNCHANGED <<nodes, root, borders, idMap, attributes, maximizedTabSet, activeTabSet,
                   changeListeners, nextNode, uuid, trace, outcome, notified, steps>>

NextDrop ==
    \/ SetOnAllowDrop
    \/ FindDropTargetNode

SpecDrop == InitDrop /\ [][NextDrop]_vars

\* --------------------------------------------- specification of the Layout
\* the actions dispatched through the Layout
LayoutActionInputs ==
    {[type |-> "FlexLayout_SelectTab", data |-> [tabNode |-> "t2"]],
     [type |-> "FlexLayout_SelectTab", data |-> [tabNode |-> "b2"]],
     [type |-> "FlexLayout_DeleteTab", data |-> [node |-> "t1"]],
     [type |-> "FlexLayout_DeleteTab", data |-> [node |-> "t3"]],
     [type |-> "FlexLayout_DeleteTabset", data |-> [node |-> "ts1"]],
     [type |-> "FlexLayout_MaximizeToggle", data |-> [node |-> "ts1"]],
     [type |-> "FlexLayout_MaximizeToggle", data |-> [node |-> "ts2"]],
     [type |-> "FlexLayout_AddNode",
      data |-> [json |-> NewTabJson, toNode |-> "ts1", location |-> "center",
                index |-> 0 - 1, select |-> Undefined]],
     [type |-> "FlexLayout_AddNode",
      data |-> [json |-> NewTabJson, toNode |-> "ts2", location |-> "center",
                index |-> 0, select |-> "false"]],
     [type |-> "FlexLayout_MoveNode",
      data |-> [fromNode |-> "t1", toNode |-> "ts2", location |-> "center",
                index |-> 0 - 1, select |-> Undefined]],
     [type |-> "FlexLayout_AdjustWeights",
      data |-> [nodeId |-> UnknownId, weights |-> <<40, 60>>]]}

\* the pointer positions of the dragover events
DragOverInputs == {<<0, 2>>, <<10, 2>>}

\* the Layout is mounted on the loaded model (componentDidMount has added
\* its listener) and OptimizedLayout has synced its tabs; no drag
InitLayout ==
    /\ nodes = fromJson.nodes
    /\ root = fromJson.root
    /\ borders = fromJson.borders
    /\ idMap = fromJson.idMap
    /\ attributes = fromJson.attributes
    /\ maximizedTabSet = fromJson.maximizedTabSet
    /\ activeTabSet = fromJson.activeTabSet
    /\ nextNode = fromJson.nextNode
    /\ uuid = fromJson.uuid
    /\ changeListeners = <<OnModelChange>>
    /\ trace = <<>>
    /\ outcome = [threw |-> FALSE, returnVal |-> NoNode]
    /\ notified = <<>>
    /\ steps = 0
    /\ \E callback \in {"none", "veto", "replace"} :
           view = [onAction |-> callback, previousModel |-> Undefined,
                   dragState |-> NoNode, dragEnterCount |-> 0, dragging |-> FALSE,
                   dropInfo |-> NoDropInfo, outlineDiv |-> FALSE,
                   reported |-> Undefined, isDragging |-> FALSE,
                   tabs |-> syncTabsWithModel(fromJson, <<>>), prevTabs |-> <<>>,
                   at |-> "idle", source |-> NoNode, call |-> <<>>,
                   noDrop |-> {}, noDivide |-> {}, enableEdgeDock |-> TRUE,
                   onAllowDrop |-> Undefined,
                   paths |-> render([paths |-> NoPaths], fromJson).paths,
                   seenPaths |-> NoPaths]

\* the model and the history after a Layout.doAction call with result r; the
\* action handed to model.doAction, if one was, is in the trace
Applied(r, handed) ==
    /\ nodes' = r.m.nodes
    /\ root' = r.m.root
    /\ borders' = r.m.borders
    /\ idMap' = r.m.idMap
    /\ attributes' = r.m.attributes
    /\ maximizedTabSet' = r.m.maximizedTabSet
    /\ activeTabSet' = r.m.activeTabSet
    /\ nextNode' = r.m.nextNode
    /\ uuid' = r.m.uuid
    /\ outcome' = [threw |-> r.threw, returnVal |-> r.returnVal]
    /\ notified' = r.notified
    /\ trace' = IF handed # <<>>
                THEN Append(trace, [action |-> handed[1], m |-> Model,
                                    changeListeners |-> changeListeners])
                ELSE trace
    /\ steps' = steps + 1
    /\ UNCHANGED changeListeners

\* the action the Layout hands to model.doAction: <<>> when none
handedOn(v, action) == IF v.onAction = "none" THEN <<action>> ELSE onAction(v, action)

\* one call layout.doAction(action) while nothing is dragged; its change
\* listeners run inside
LayoutDoAction ==
    /\ steps < MaxSteps
    /\ view.at = "idle"
    /\ \E action \in LayoutActionInputs :
       \E r \in {layoutDoAction(view, Model, changeListeners, action)} :
           /\ Applied(r, handedOn(view, action))
           /\ view' = [onModelChange(view, r.m, r.notified)
                          EXCEPT !.call = <<[action |-> action, m |-> Model]>>]

\* Layout.componentDidUpdate, after any re-render
ComponentDidUpdate ==
    /\ IF view.previousModel # "model"
       THEN /\ changeListeners' = Append(changeListeners, OnModelChange)
            /\ view' = [view EXCEPT !.previousModel = "model"]
       ELSE UNCHANGED <<changeListeners, view>>
    /\ UNCHANGED <<nodes, root, borders, idMap, attributes, maximizedTabSet, activeTabSet,
                   nextNode, uuid, trace, outcome, notified, steps>>

\* a step of the view alone
ViewStep(v) ==
    /\ view' = v
    /\ UNCHANGED <<nodes, root, borders, idMap, attributes, maximizedTabSet, activeTabSet,
                   changeListeners, nextNode, uuid, trace, outcome, notified, steps>>

\* dragstart on a tab button or on the tab strip of a tabset: Layout.setDragNode
SetDragNode ==
    /\ view.at = "idle"
    /\ \E id \in {"t1", "ts1"} :
           /\ idMap[id] \in reachable(Model)
           /\ ViewStep([view EXCEPT !.dragState = idMap[id], !.dragEnterCount = 0,
                                    !.source = idMap[id], !.at = "source"])

\* the pointer comes onto the layout: dragenter
DragEnter ==
    /\ view.at \in {"source", "outside", "tabContainer"}
    /\ ViewStep([onDragEnterRaw(view) EXCEPT !.at = "layout"])

\* the pointer goes from one element of the layout to another: dragenter of
\* the new one, then dragleave of the old one
DragMove ==
    /\ view.at = "layout"
    /\ ViewStep(onDragLeaveRaw(onDragEnterRaw(view), "layout"))

\* dragover on the layout
DragOver ==
    /\ view.at = "layout"
    /\ \E p \in DragOverInputs : ViewStep(onDragOver(view, Model, p[1], p[2]))

\* the pointer leaves the layout, to a panel of the sibling TabContainer or
\* to elsewhere: dragleave
DragLeave ==
    /\ view.at = "layout"
    /\ \E relatedTarget \in {Undefined, "tabContainer"} :
           ViewStep([onDragLeaveRaw(view, relatedTarget)
                        EXCEPT !.at = IF relatedTarget = Undefined THEN "outside"
                                      ELSE "tabContainer"])

\* the button is released over the layout, which accepts the drag: drop, then
\* dragend at the source
Drop ==
    /\ view.at = "layout"
    /\ view.dragging
    /\ view.dropInfo # NoDropInfo => steps < MaxSteps
    /\ \E d \in {onDrop(view, Model, changeListeners)} :
           IF ~d.called
           THEN ViewStep([onDragEnd(d.v, Model) EXCEPT !.at = "idle", !.source = NoNode])
           ELSE /\ Applied(d.r, handedOn(view, d.action))
                /\ view' = [onDragEnd(d.v, d.r.m)
                               EXCEPT !.at = "idle", !.source = NoNode,
                                      !.call = <<[action |-> d.action, m |-> Model]>>]

\* the drag is cancelled over the layout: dragleave with no relatedTarget,
\* then dragend at the source
DragCancel ==
    /\ view.at = "layout"
    /\ ViewStep([onDragEnd(onDragLeaveRaw(view, Undefined), Model)
                    EXCEPT !.at = "idle", !.source = NoNode])

\* the drag ends while the pointer is not on the layout: dragend at the source
DragEnd ==
    /\ view.at \in {"source", "outside", "tabContainer"}
    /\ ViewStep([onDragEnd(view, Model) EXCEPT !.at = "idle", !.source = NoNode])

NextLayout ==
    \/ LayoutDoAction
    \/ ComponentDidUpdate
    \/ SetDragNode
    \/ DragEnter
    \/ DragMove
    \/ DragOver
    \/ DragLeave
    \/ Drop
    \/ DragCancel
    \/ DragEnd

SpecLayout == InitLayout /\ [][NextLayout]_vars

\* ------------------------------------------- the Layout and its model prop
\* The model objects a Layout is given as its model prop: "A" is the model of
\* the state variables (mounted on first), "B" another model, of which only
\* the change listeners matter (otherListeners)
ModelProps == {"A", "B"}

\* Model.addChangeListener / Model.removeChangeListener on a listener list
addChangeListener(listeners, listener) == Append(listeners, listener)
removeChangeListener(listeners, listener) ==
    Bind(indexOf(listeners, listener), LAMBDA pos :
    IF pos # 0 - 1 THEN spliceRemove(listeners, pos) ELSE listeners)

\* Layout.componentDidUpdate: regs has the change listeners of each model
\* object; the result has the Layout and the listeners afterwards
componentDidUpdate(v, regs) ==
    IF v.model # v.previousModel
    THEN Bind(IF v.previousModel # Undefined
              THEN [regs EXCEPT ![v.previousModel] = removeChangeListener(@, OnModelChange)]
              ELSE regs, LAMBDA regs1 :
         [v |-> [v EXCEPT !.previousModel = v.model],
          regs |-> [regs1 EXCEPT ![v.model] = addChangeListener(@, OnModelChange)]])
    ELSE [v |-> v, regs |-> regs]

\* Layout.componentWillUnmount: the resize observer is released
componentWillUnmount(v) == [v EXCEPT !.mounted = FALSE]

\* the Layout is mounted on model A (componentDidMount has added its
\* onModelChange to the model's change listeners)
InitMount ==
    /\ nodes = fromJson.nodes
    /\ root = fromJson.root
    /\ borders = fromJson.borders
    /\ idMap = fromJson.idMap
    /\ attributes = fromJson.attributes
    /\ maximizedTabSet = fromJson.maximizedTabSet
    /\ activeTabSet = fromJson.activeTabSet
    /\ nextNode = fromJson.nextNode
    /\ uuid = fromJson.uuid
    /\ changeListeners = addChangeListener(<<>>, OnModelChange)
    /\ trace = <<>>
    /\ outcome = [threw |-> FALSE, returnVal |-> NoNode]
    /\ notified = <<>>
    /\ steps = 0
    /\ view = [mounted |-> TRUE, model |-> "A", previousModel |-> Undefined,
               otherListeners |-> <<>>]

\* the parent renders the mounted Layout again, with the same model or with
\* another one as the model prop; componentDidUpdate follows
SetModelProp ==
    /\ view.mounted
    /\ \E model \in ModelProps :
       \E r \in {componentDidUpdate([view EXCEPT !.model = model],
                                    [A |-> changeListeners, B |-> view.otherListeners])} :
           /\ changeListeners' = r.regs.A
           /\ view' = [r.v EXCEPT !.otherListeners = r.regs.B]
    /\ UNCHANGED <<nodes, root, borders, idMap, attributes, maximizedTabSet, activeTabSet,
                   nextNode, uuid, trace, outcome, notified, steps>>

\* the Layout is unmounted
Unmount ==
    /\ view.mounted
    /\ ViewStep(componentWillUnmount(view))

\* the lifecycle of the Layout, and SelectTab and DeleteTab calls on model A
NextMount ==
    \/ SetModelProp
    \/ Unmount
    \/ SelectTab
    \/ DeleteTab

SpecMount == InitMount /\ [][NextMount]_vars

\* ------------------------------------ a listener that calls doAction itself
\* A change listener that, called with a DeleteTab, calls
\* model.doAction(Actions.selectTab("t2")) before it returns
Reactor == "reactor"
reaction(action) ==
    IF action.type = "FlexLayout_DeleteTab"
    THEN <<[type |-> "FlexLayout_SelectTab", data |-> [tabNode |-> "t2"]]>>
    ELSE <<>>

\* Model.doAction with listeners that may call doAction: the listener loop
\* goes on with the next listener when a listener returns; what a listener
\* did to the model and the listener calls it caused come before. An
\* exception in a listener leaves the loop and the outer call
RECURSIVE doActionReentrant(_, _, _)
RECURSIVE listenerLoop(_, _, _, _, _)
listenerLoop(m, listeners, k, action, calls) ==
    IF k > Len(listeners) THEN [m |-> m, threw |-> FALSE, notified |-> calls]
    ELSE Bind(Append(calls, [listener |-> listeners[k], action |-> action,
                             saw |-> Observed(m)]), LAMBDA calls1 :
         IF listeners[k] = Reactor /\ reaction(action) # <<>>
         THEN Bind(doActionReentrant(m, listeners, reaction(action)[1]), LAMBDA inner :
              IF inner.threw
              THEN [m |-> inner.m, threw |-> TRUE, notified |-> calls1 \o inner.notified]
              ELSE listenerLoop(inner.m, listeners, k + 1, action,
                                calls1 \o inner.notified))
         ELSE listenerLoop(m, listeners, k + 1, action, calls1))
doActionReentrant(m, listeners, action) ==
    Bind(doActionSwitch(m, action), LAMBDA r :
    IF r.threw
    THEN [m |-> r.m, threw |-> TRUE, returnVal |-> NoNode, notified |-> <<>>]
    ELSE Bind(listenerLoop(updateIdMap(r.m), listeners, 1, action, <<>>), LAMBDA l :
         [m |-> l.m, threw |-> l.threw,
          returnVal |-> IF l.threw THEN NoNode ELSE r.returnVal,
          notified |-> l.notified]))

\* the model is loaded; no listener is registered
InitNested ==
    /\ nodes = fromJson.nodes
    /\ root = fromJson.root
    /\ borders = fromJson.borders
    /\ idMap = fromJson.idMap
    /\ attributes = fromJson.attributes
    /\ maximizedTabSet = fromJson.maximizedTabSet
    /\ activeTabSet = fromJson.activeTabSet
    /\ nextNode = fromJson.nextNode
    /\ uuid = fromJson.uuid
    /\ changeListeners = <<>>
    /\ trace = <<>>
    /\ outcome = [threw |-> FALSE, returnVal |-> NoNode]
    /\ notified = <<>>
    /\ steps = 0
    /\ view = NoView

\* Model.addChangeListener with the reacting listener or a plain one
RegisterListener ==
    /\ Len(changeListeners) < MaxListeners
    /\ \E listener \in {Reactor, "L1", "L2"} :
           changeListeners' = addChangeListener(changeListeners, listener)
    /\ UNCHANGED <<nodes, root, borders, idMap, attributes, maximizedTabSet, activeTabSet,
                   nextNode, uuid, trace, outcome, notified, steps, view>>

\* one call model.doAction(action) from outside any listener: a DeleteTab or
\* a SelectTab
DispatchReentrant ==
    /\ steps < MaxSteps
    /\ \E action \in {[type |-> "FlexLayout_DeleteTab", data |-> [node |-> id]] :
                          id \in {"t1", "t3", "b1"}}
                \cup {[type |-> "FlexLayout_SelectTab", data |-> [tabNode |-> id]] :
                          id \in {"t1", "t2", "b2"}} :
       \E r \in {doActionReentrant(Model, changeListeners, action)} :
           /\ nodes' = r.m.nodes
           /\ root' = r.m.root
           /\ borders' = r.m.borders
           /\ idMap' = r.m.idMap
           /\ attributes' = r.m.attributes
           /\ maximizedTabSet' = r.m.maximizedTabSet
           /\ activeTabSet' = r.m.activeTabSet
           /\ nextNode' = r.m.nextNode
           /\ uuid' = r.m.uuid
           /\ outcome' = [threw |-> r.threw, returnVal |-> r.returnVal]
           /\ notified' = r.notified
           /\ trace' = Append(trace, [action |-> action, m |-> Model,
                                      changeListeners |-> changeListeners])
    /\ steps' = steps + 1
    /\ UNCHANGED <<changeListeners, view>>

NextNested ==
    \/ RegisterListener
    \/ DispatchReentrant

SpecNested == InitNested /\ [][NextNested]_vars

\* --------------------------- OptimizedLayout: TabRef mounts and model changes
\* OptimizedLayout.handleTabMount: the updater given to setTabs
handleTabMount(m, prevTabs, node) ==
    IF getId(m, node) \in DOMAIN prevTabs THEN prevTabs
    ELSE [id \in DOMAIN prevTabs \cup {getId(m, node)} |->
             IF id = getId(m, node) THEN createTabInfo(m, node) ELSE prevTabs[id]]

\* the tabs for which Layout.renderTabMoveables calls the factory (render on
\* demand: a tab rendered before, or the selected tab of its parent); refs
\* are the nodes that have a TabRef
renderedTabs(m, refs) ==
    {n \in reachable(m) : isTabNode(m, n) /\ (n \in refs \/ isSelected(m, n))}

\* OptimizedLayout is mounted on the loaded model: the tabs map is synced,
\* no TabRef is rendered yet
InitTabs ==
    /\ nodes = fromJson.nodes
    /\ root = fromJson.root
    /\ borders = fromJson.borders
    /\ idMap = fromJson.idMap
    /\ attributes = fromJson.attributes
    /\ maximizedTabSet = fromJson.maximizedTabSet
    /\ activeTabSet = fromJson.activeTabSet
    /\ nextNode = fromJson.nextNode
    /\ uuid = fromJson.uuid
    /\ changeListeners = <<OnModelChange>>
    /\ trace = <<>>
    /\ outcome = [threw |-> FALSE, returnVal |-> NoNode]
    /\ notified = <<>>
    /\ steps = 0
    /\ view = [tabs |-> syncTabsWithModel(fromJson, <<>>), refs |-> {}, pending |-> {}]

\* the Layout renders: a TabRef is created for each rendered tab that has
\* none, and its mount effect is pending; the TabRefs of tabs that left the
\* model are unmounted
LayoutRender ==
    /\ \E rendered \in {renderedTabs(Model, view.refs)} :
           ViewStep([view EXCEPT !.refs = rendered,
                                 !.pending = @ \cup (rendered \ view.refs)])

\* the mount effect of a TabRef runs: onTabMount(node)
TabRefMount ==
    /\ \E node \in view.pending :
           ViewStep([view EXCEPT !.tabs = handleTabMount(Model, @, node),
                                 !.pending = @ \ {node}])

\* one call model.doAction(action), a DeleteTab, a SelectTab or an AddNode;
\* the model-change handler of OptimizedLayout runs inside
TabsDoAction ==
    /\ steps < MaxSteps
    /\ \E action \in {[type |-> "FlexLayout_DeleteTab", data |-> [node |-> id]] :
                          id \in {"t1", "t3", "b1", "n1"}}
                \cup {[type |-> "FlexLayout_SelectTab", data |-> [tabNode |-> "t2"]],
                      [type |-> "FlexLayout_AddNode",
                       data |-> [json |-> NewTabJson, toNode |-> "ts1",
                                 location |-> "center", index |-> 0 - 1,
                                 select |-> Undefined]]} :
       \E r \in {doAction(Model, changeListeners, action)} :
           /\ Applied(r, <<action>>)
           /\ view' = IF r.notified # <<>>
                      THEN [view EXCEPT !.tabs = handleModelChange(r.m, @)]
                      ELSE view

NextTabs ==
    \/ LayoutRender
    \/ TabRefMount
    \/ TabsDoAction

SpecTabs == InitTabs /\ [][NextTabs]_vars

\* ------------------------------ Layouts that share the static dragState
\* Two Layout instances on the model; LayoutInternal.dragState is static, so
\* both read and write the same field. Each layout has its dragEnterCount,
\* dragging, dropInfo and outlineDiv fields (outlineDiv: the field is set),
\* and outlines, the number of outline elements attached to its root div
Layouts == {"A", "B"}
MaxOutlines == 2
NoDragState == [mainLayout |-> Undefined, dragNode |-> NoNode]
tabContainerOf(l) == "tc" \o l

\* Layout.setDragNode of layout l
setDragNodeIn(d, l, node) ==
    [d EXCEPT !.dragState = [mainLayout |-> l, dragNode |-> node],
              !.layouts[l].dragEnterCount = 0]

\* Layout.clearDragLocal of layout l: the element in outlineDiv is removed
clearDragLocalIn(d, l) ==
    [d EXCEPT !.layouts[l].dragEnterCount = 0, !.layouts[l].dragging = FALSE,
              !.layouts[l].outlines = IF d.layouts[l].outlineDiv THEN @ - 1 ELSE @,
              !.layouts[l].outlineDiv = FALSE]

\* Layout.clearDragMain of layout l
clearDragMainIn(d, l) == clearDragLocalIn([d EXCEPT !.dragState = NoDragState], l)

\* Layout.onDragEnter of layout l (no onExternalDrag prop): a new outline
\* element is attached and put into outlineDiv
onDragEnterIn(d, l) ==
    IF d.dragState # NoDragState
    THEN IF d.dragState.mainLayout # l THEN d
         ELSE [d EXCEPT !.layouts[l].dropInfo = NoDropInfo,
                        !.layouts[l].outlineDiv = TRUE,
                        !.layouts[l].outlines = @ + 1,
                        !.layouts[l].dragging = TRUE]
    ELSE d

\* Layout.onDragEnterRaw of layout l
onDragEnterRawIn(d, l) ==
    Bind([d EXCEPT !.layouts[l].dragEnterCount = @ + 1], LAMBDA d1 :
    IF d1.layouts[l].dragEnterCount = 1 THEN onDragEnterIn(d1, l) ELSE d1)

\* Layout.onDragLeave of layout l
onDragLeaveIn(d, l) == IF d.layouts[l].dragging THEN clearDragLocalIn(d, l) ELSE d

\* Layout.onDragLeaveRaw of layout l
onDragLeaveRawIn(d, l, relatedTarget) ==
    Bind([d EXCEPT !.layouts[l].dragEnterCount = @ - 1], LAMBDA d1 :
    IF d1.layouts[l].dragEnterCount = 0
    THEN IF relatedTarget \in {"layout", "tabContainer"}
         THEN [d1 EXCEPT !.layouts[l].dragEnterCount = 1]
         ELSE onDragLeaveIn(d1, l)
    ELSE d1)

\* Layout.onDragOver of layout l; dragState!.dragNode of an undefined
\* dragState throws and leaves the handler
onDragOverIn(d, l, m, x, y) ==
    IF d.layouts[l].dragging /\ d.dragState # NoDragState
    THEN Bind(findDropTargetNode(d, m, d.dragState.dragNode, x, y).dropInfo,
              LAMBDA dropInfo :
         IF dropInfo # NoDropInfo THEN [d EXCEPT !.layouts[l].dropInfo = dropInfo] ELSE d)
    ELSE d

\* Layout.onDrop of layout l: the result has the layouts afterwards and the
\* doAction call made, if one was made; an exception (of doAction, or of
\* dragState.dragJson with an undefined dragState) leaves the handler
onDropIn(d, l, m, listeners) ==
    IF d.layouts[l].dragging
    THEN IF d.layouts[l].dropInfo # NoDropInfo
         THEN IF d.dragState = NoDragState THEN [called |-> FALSE, d |-> d]
              ELSE Bind([type |-> "FlexLayout_MoveNode",
                         data |-> [fromNode |-> getId(m, d.dragState.dragNode),
                                   toNode |-> getId(m, d.layouts[l].dropInfo.node),
                                   location |-> d.layouts[l].dropInfo.location,
                                   index |-> d.layouts[l].dropInfo.index,
                                   select |-> Undefined]], LAMBDA action :
                   Bind(doAction(m, listeners, action), LAMBDA r :
                   [called |-> TRUE, r |-> r, action |-> action,
                    d |-> IF r.threw THEN d ELSE clearDragMainIn(d, l)]))
         ELSE [called |-> FALSE, d |-> clearDragMainIn(d, l)]
    ELSE [called |-> FALSE, d |-> [d EXCEPT !.layouts[l].dragEnterCount = 0]]

\* the dragend event at the element the drag started on: a tab button calls
\* clearDragMain of its layout, the tab strip of a tabset has no handler
onDragEndIn(d, m) ==
    [(IF d.source # NoNode /\ isTabNode(m, d.source)
      THEN clearDragMainIn(d, d.sourceLayout) ELSE d)
        EXCEPT !.at = "idle", !.source = NoNode]

\* two Layouts are mounted on the loaded model; nothing is dragged
InitDrag ==
    /\ nodes = fromJson.nodes
    /\ root = fromJson.root
    /\ borders = fromJson.borders
    /\ idMap = fromJson.idMap
    /\ attributes = fromJson.attributes
    /\ maximizedTabSet = fromJson.maximizedTabSet
    /\ activeTabSet = fromJson.activeTabSet
    /\ nextNode = fromJson.nextNode
    /\ uuid = fromJson.uuid
    /\ changeListeners = <<OnModelChange, OnModelChange>>
    /\ trace = <<>>
    /\ outcome = [threw |-> FALSE, returnVal |-> NoNode]
    /\ notified = <<>>
    /\ steps = 0
    /\ view = [dragState |-> NoDragState,
               layouts |-> [l \in Layouts |->
                               [dragEnterCount |-> 0, dragging |-> FALSE,
                                dropInfo |-> NoDropInfo, outlineDiv |-> FALSE,
                                outlines |-> 0]],
               at |-> "idle", source |-> NoNode, sourceLayout |-> "A",
               noDrop |-> {}, noDivide |-> {}, enableEdgeDock |-> TRUE,
               onAllowDrop |-> Undefined]

\* dragstart on a tab button or on the tab strip of a tabset of layout l
SharedDragStart ==
    /\ view.at = "idle"
    /\ \E l \in Layouts, id \in {"t1", "ts1"} :
           /\ idMap[id] \in reachable(Model)
           /\ ViewStep([setDragNodeIn(view, l, idMap[id])
                           EXCEPT !.at = "source", !.source = idMap[id],
                                  !.sourceLayout = l])

\* the pointer comes onto layout l: dragenter
SharedDragEnter ==
    /\ view.at \notin Layouts \cup {"idle"}
    /\ \E l \in Layouts :
           /\ view.layouts[l].outlines < MaxOutlines
           /\ ViewStep([onDragEnterRawIn(view, l) EXCEPT !.at = l])

\* the pointer goes from one element of the layout to another: dragenter of
\* the new one, then dragleave of the old one
SharedDragMove ==
    /\ view.at \in Layouts
    /\ ViewStep(onDragLeaveRawIn(onDragEnterRawIn(view, view.at), view.at, "layout"))

\* dragover on the layout under the pointer
SharedDragOver ==
    /\ view.at \in Layouts
    /\ \E p \in DragOverInputs : ViewStep(onDragOverIn(view, view.at, Model, p[1], p[2]))

\* the pointer leaves the layout, to a panel of its sibling TabContainer or
\* to elsewhere: dragleave
SharedDragLeave ==
    /\ view.at \in Layouts
    /\ \E relatedTarget \in {Undefined, "tabContainer"} :
           ViewStep([onDragLeaveRawIn(view, view.at, relatedTarget)
                        EXCEPT !.at = IF relatedTarget = Undefined THEN "outside"
                                      ELSE tabContainerOf(view.at)])

\* the button is released over a layout that accepts the drag: drop, then
\* dragend at the source
SharedDrop ==
    /\ view.at \in Layouts
    /\ view.layouts[view.at].dragging
    /\ view.layouts[view.at].dropInfo # NoDropInfo => steps < MaxSteps
    /\ \E o \in {onDropIn(view, view.at, Model, changeListeners)} :
           IF ~o.called
           THEN ViewStep(onDragEndIn(o.d, Model))
           ELSE /\ Applied(o.r, <<o.action>>)
                /\ view' = onDragEndIn(o.d, o.r.m)

\* the drag ends over a layout without a drop (cancelled, or the layout does
\* not accept it): dragleave with no relatedTarget, then dragend at the source
SharedDragCancel ==
    /\ view.at \in Layouts
    /\ ViewStep(onDragEndIn(onDragLeaveRawIn(view, view.at, Undefined), Model))

\* the drag ends while the pointer is on no layout: dragend at the source
SharedDragEnd ==
    /\ view.at \notin Layouts \cup {"idle"}
    /\ ViewStep(onDragEndIn(view, Model))

NextDrag ==
    \/ SharedDragStart
    \/ SharedDragEnter
    \/ SharedDragMove
    \/ SharedDragOver
    \/ SharedDragLeave
    \/ SharedDrop
    \/ SharedDragCancel
    \/ SharedDragEnd

SpecDrag == InitDrag /\ [][NextDrag]_vars

\* -------------------------------------------------------------- properties
\* the last doAction call: its action and the model it found
lastCall == trace[Len(trace)]
called(type) == trace # <<>> /\ lastCall.action.type = type


\* the ids an action names, each with the kinds of node its case accepts
\* (the instanceof guards of the switch; ADJUST_WEIGHTS is given a row)
targets(action) ==
    IF action.type = "FlexLayout_AddNode"
    THEN {<<action.data.toNode, {"tabset", "border", "row"}>>}
    ELSE IF action.type = "FlexLayout_MoveNode"
    THEN {<<action.data.fromNode, {"tab", "tabset", "row"}>>,
          <<action.data.toNode, {"tabset", "border", "row"}>>}
    ELSE IF action.type \in {"FlexLayout_DeleteTab", "FlexLayout_RenameTab"}
    THEN {<<action.data.node, {"tab"}>>}
    ELSE IF action.type = "FlexLayout_SelectTab"
    THEN {<<action.data.tabNode, {"tab"}>>}
    ELSE IF action.type \in {"FlexLayout_DeleteTabset", "FlexLayout_MaximizeToggle"}
    THEN {<<action.data.node, {"tabset"}>>}
    ELSE IF action.type = "FlexLayout_SetActiveTabset"
    THEN {<<action.data.tabsetNode, {"tabset"}>>} \ {<<Undefined, {"tabset"}>>}
    ELSE IF action.type = "FlexLayout_AdjustWeights"
    THEN {<<action.data.nodeId, {"row"}>>}
    ELSE IF action.type = "FlexLayout_AdjustBorderSplit"
    THEN {<<action.data.node, {"border"}>>}
    ELSE IF action.type = "FlexLayout_UpdateNodeAttributes"
    THEN {<<action.data.node, {"tab", "tabset", "row", "border"}>>}
    ELSE {}

\* the call names an id that resolves to no node, or to a node of a kind
\* its action does not accept
invalidTarget(call) ==
    \E t \in targets(call.action) :
        \/ call.m.idMap[t[1]] = NoNode
        \/ getType(call.m, call.m.idMap[t[1]]) \notin t[2]

\* the call is an AddNode whose JSON carries the id of a node of the model
duplicateId(call) ==
    /\ call.action.type = "FlexLayout_AddNode"
    /\ \E n \in reachable(call.m) : getId(call.m, n) = call.action.data.json.id

\* parent/children relations, selection indices, the active and the
\* maximized tabset of m1 are those of m0
sameLayout(m1, m0) ==
    /\ \A n \in Nodes :
        m0.nodes[n].type # "none" =>
            /\ m1.nodes[n].parent = m0.nodes[n].parent
            /\ m1.nodes[n].children = m0.nodes[n].children
            /\ m1.nodes[n].selected = m0.nodes[n].selected
    /\ m1.root = m0.root
    /\ m1.borders = m0.borders
    /\ m1.activeTabSet = m0.activeTabSet
    /\ m1.maximizedTabSet = m0.maximizedTabSet

C2_MaximizeToggle ==
    called("FlexLayout_MaximizeToggle") =>
        LET X == lastCall.m.idMap[lastCall.action.data.node]
        IN  isTabSetNode(lastCall.m, X) =>
            /\ IF getMaximizedTabset(lastCall.m) = X
               THEN /\ getMaximizedTabset(Model) = NoNode
                    /\ \A n \in Nodes : ~(isTabSetNode(Model, n) /\ isMaximized(Model, n))
               ELSE /\ isMaximized(Model, X)
                    /\ activeTabSet = X
                    /\ (X \in reachable(Model) => getActiveTabset(Model) = X)
            /\ (/\ Len(trace) >= 2
                /\ trace[Len(trace) - 1].action = lastCall.action
                /\ trace[Len(trace) - 1].m.idMap[lastCall.action.data.node] = X
                /\ getMaximizedTabset(trace[Len(trace) - 1].m) = NoNode)
               => getMaximizedTabset(Model) = NoNode

\* two consecutive toggles of ts1 from nothing maximized
C2_Witness ==
    /\ Len(trace) = 2
    /\ trace[1].action = [type |-> "FlexLayout_MaximizeToggle", data |-> [node |-> "ts1"]]
    /\ trace[2].action = trace[1].action
    /\ getMaximizedTabset(trace[1].m) = NoNode
    /\ isMaximized(trace[2].m, trace[2].m.idMap["ts1"])
    /\ getMaximizedTabset(Model) = NoNode

\* C3: for every action type, a call whose id resolves to no node or to a
\* node of a kind the action does not accept returns normally
C3_InvalidTargetReturns ==
    (trace # <<>> /\ invalidTarget(lastCall) /\ ~duplicateId(lastCall)) => ~outcome.threw

\* C4: a call whose target id is unknown or of the wrong kind leaves the
\* parent/children relations, the selection indices, the active and the
\* maximized tabset as they were
C4_InvalidTargetNoChange ==
    (trace # <<>> /\ invalidTarget(lastCall) /\ ~duplicateId(lastCall))
        => sameLayout(Model, lastCall.m)

\* C5: every doAction call invokes each listener registered at the call
\* exactly once, in order, with the action, after the mutation and the
\* rebuild of the id index; also when the action was ignored as invalid
C5_ListenersNotified ==
    (trace # <<>> /\ ~duplicateId(lastCall)) =>
        notified = [k \in 1..Len(lastCall.changeListeners) |->
                        [listener |-> lastCall.changeListeners[k],
                         action |-> lastCall.action,
                         saw |-> Observed(Model)]]

\* C6: after every doAction that returns, getNodeById(id) is node n exactly
\* when n is reachable from the root or a border and n.getId() = id
C6_IdIndexExact ==
    (trace # <<>> /\ ~outcome.threw) =>
        LET r == reachable(Model)
        IN  /\ \A id \in Ids :
                getNodeById(Model, id) # NoNode =>
                    /\ getNodeById(Model, id) \in r
                    /\ getId(Model, getNodeById(Model, id)) = id
            /\ \A n \in r : getNodeById(Model, getId(Model, n)) = n

\* the id of a tab that was added resolved to the new tab, and resolves to
\* undefined once the tab is deleted
C6_Witness ==
    /\ Len(trace) = 2
    /\ trace[1].action.type = "FlexLayout_AddNode"
    /\ trace[1].action.data.json.id = "n1"
    /\ trace[2].action = [type |-> "FlexLayout_DeleteTab", data |-> [node |-> "n1"]]
    /\ isTabNode(trace[2].m, getNodeById(trace[2].m, "n1"))
    /\ getNodeById(trace[2].m, "n1") \in reachable(trace[2].m)
    /\ ~outcome.threw
    /\ getNodeById(Model, "n1") = NoNode

\* C7: after any sequence of actions, no two nodes reachable from the root
\* or the borders share an id
C7_UniqueIds ==
    LET v == visitNodes(Model)
    IN  \A i \in 1..Len(v), j \in 1..Len(v) :
            v[i] # v[j] => getId(Model, v[i]) # getId(Model, v[j])

\* a tab added with its own id and one added with a generated id are both in
\* the layout
C7_Witness ==
    /\ Len(trace) = 2
    /\ trace[1].action.type = "FlexLayout_AddNode"
    /\ trace[2].action.type = "FlexLayout_AddNode"
    /\ \E a \in reachable(Model), b \in reachable(Model) :
        /\ getId(Model, a) = "n1"
        /\ getId(Model, b) = GenIds[lastCall.m.uuid + 1]
        /\ isTabNode(Model, b)

\* C8: AddNode whose JSON carries the id of a node of the model raises an
\* error, and the node tree and the index are as before the call
C8_DuplicateIdRejected ==
    (trace # <<>> /\ duplicateId(lastCall)) =>
        /\ outcome.threw
        /\ sameLayout(Model, lastCall.m)
        /\ idMap = lastCall.m.idMap
        /\ reachable(Model) = reachable(lastCall.m)

\* an AddNode with the id of tab t1 onto a tabset of the layout was rejected
C8_Witness ==
    /\ called("FlexLayout_AddNode")
    /\ lastCall.action.data.json.id = "t1"
    /\ lastCall.action.data.toNode = "ts1"
    /\ isTabNode(lastCall.m, lastCall.m.idMap["t1"])
    /\ outcome.threw

\* C9: SelectTab on the tab at index i of a border: a selected index of i
\* becomes -1, any other becomes i; from tab i selected, two consecutive
\* SelectTab on it leave the selected index at i
C9_BorderSelectToggles ==
    called("FlexLayout_SelectTab") =>
        LET tabNode == lastCall.m.idMap[lastCall.action.data.tabNode]
            border == getParent(lastCall.m, tabNode)
            i == indexOf(getChildren(lastCall.m, border), tabNode)
            first == trace[Len(trace) - 1]
        IN  (isTabNode(lastCall.m, tabNode) /\ isBorderNode(lastCall.m, border)) =>
            /\ getSelected(Model, border) =
                    IF getSelected(lastCall.m, border) = i THEN 0 - 1 ELSE i
            /\ (/\ Len(trace) >= 2
                /\ first.action = lastCall.action
                /\ first.m.idMap[lastCall.action.data.tabNode] = tabNode
                /\ getParent(first.m, tabNode) = border
                /\ getSelected(first.m, border) = indexOf(getChildren(first.m, border), tabNode))
               => getSelected(Model, border) = i

\* border tab b1, selected, is selected twice: deselected, then selected again
C9_Witness ==
    /\ Len(trace) = 2
    /\ trace[1].action = [type |-> "FlexLayout_SelectTab", data |-> [tabNode |-> "b1"]]
    /\ trace[2].action = trace[1].action
    /\ getSelected(trace[1].m, trace[1].m.idMap["border_left"]) = 0
    /\ getSelected(trace[2].m, trace[2].m.idMap["border_left"]) = 0 - 1
    /\ getSelected(Model, idMap["border_left"]) = 0

\* C10: SelectTab on the tab at index i of a tabset makes the tabset's
\* selected index i and the tabset the active tabset, also when the tab was
\* selected already; no other tabset's selected index changes
C10_TabSetSelect ==
    called("FlexLayout_SelectTab") =>
        LET tabNode == lastCall.m.idMap[lastCall.action.data.tabNode]
            parent == getParent(lastCall.m, tabNode)
            i == indexOf(getChildren(lastCall.m, parent), tabNode)
        IN  (isTabNode(lastCall.m, tabNode) /\ isTabSetNode(lastCall.m, parent)) =>
            /\ getSelected(Model, parent) = i
            /\ getActiveTabset(Model) = parent
            /\ \A n \in Nodes :
                (isTabSetNode(lastCall.m, n) /\ n # parent)
                    => getSelected(Model, n) = getSelected(lastCall.m, n)

\* the tab selected was the tabset's selected tab already, and the tabset was
\* not the active one
C10_Witness ==
    /\ called("FlexLayout_SelectTab")
    /\ lastCall.action.data.tabNode = "t3"
    /\ isTabSetNode(lastCall.m, getParent(lastCall.m, lastCall.m.idMap["t3"]))
    /\ getSelected(lastCall.m, getParent(lastCall.m, lastCall.m.idMap["t3"]))
         = indexOf(getChildren(lastCall.m, getParent(lastCall.m, lastCall.m.idMap["t3"])),
                   lastCall.m.idMap["t3"])
    /\ getActiveTabset(lastCall.m) # getParent(lastCall.m, lastCall.m.idMap["t3"])
    /\ getActiveTabset(Model) = getParent(lastCall.m, lastCall.m.idMap["t3"])

\* the AddNode call just made did not throw for its id and had a tabset as
\* target, at location CENTER; the new tab is the object allocated first
addNodeTarget == lastCall.m.idMap[lastCall.action.data.toNode]
addedAtCenter ==
    /\ called("FlexLayout_AddNode")
    /\ ~duplicateId(lastCall)
    /\ isTabSetNode(lastCall.m, addNodeTarget)
    /\ lastCall.action.data.location = "center"

\* C11: AddNode with location CENTER and index -1 onto a tabset appends the
\* new tab as the last child, leaves the other children in their order and
\* returns the new tab, whose id is the id of the JSON; AddNode onto an
\* unknown id returns undefined
C11_AddNodeAppends ==
    /\ (addedAtCenter /\ lastCall.action.data.index = 0 - 1) =>
            /\ ~outcome.threw
            /\ getChildren(Model, addNodeTarget)
                    = Append(getChildren(lastCall.m, addNodeTarget), lastCall.m.nextNode)
            /\ outcome.returnVal = lastCall.m.nextNode
            /\ isTabNode(Model, outcome.returnVal)
            /\ getParent(Model, outcome.returnVal) = addNodeTarget
            /\ lastCall.action.data.json.id # Undefined
                    => getId(Model, outcome.returnVal) = lastCall.action.data.json.id
    /\ (called("FlexLayout_AddNode") /\ ~duplicateId(lastCall) /\ addNodeTarget = NoNode) =>
            /\ ~outcome.threw
            /\ outcome.returnVal = NoNode

\* tab n1 was appended to tabset ts1 after its two tabs and returned
C11_Witness ==
    /\ addedAtCenter
    /\ lastCall.action.data.index = 0 - 1
    /\ lastCall.action.data.toNode = "ts1"
    /\ lastCall.action.data.json.id = "n1"
    /\ Len(getChildren(lastCall.m, addNodeTarget)) = 2
    /\ Len(getChildren(Model, addNodeTarget)) = 3
    /\ getId(Model, outcome.returnVal) = "n1"
    /\ getChildren(Model, addNodeTarget)[3] = outcome.returnVal

\* C12: AddNode at CENTER of a tabset with select = true makes the new tab
\* the selected tab of the tabset and the tabset the active tabset; with
\* select = false the tab selected before the call is the selected tab after
C12_AddNodeSelect ==
    addedAtCenter =>
        /\ lastCall.action.data.select = "true" =>
                /\ getSelected(Model, addNodeTarget)
                        = indexOf(getChildren(Model, addNodeTarget), lastCall.m.nextNode)
                /\ activeTabSet = addNodeTarget
                /\ getActiveTabset(Model) = addNodeTarget
        /\ (lastCall.action.data.select = "false"
                /\ getSelected(lastCall.m, addNodeTarget) # 0 - 1) =>
                /\ getSelected(Model, addNodeTarget) # 0 - 1
                /\ getChildren(Model, addNodeTarget)[getSelected(Model, addNodeTarget) + 1]
                        = getChildren(lastCall.m, addNodeTarget)
                                [getSelected(lastCall.m, addNodeTarget) + 1]

\* C13: DeleteTabset on tabset S deletes exactly the children of S whose
\* enableClose is true, keeps the others in their order, and removes S itself
\* only if S has no children left; a tabset that still has a non-closeable
\* tab survives
C13_DeleteTabset ==
    called("FlexLayout_DeleteTabset") =>
        LET S == lastCall.m.idMap[lastCall.action.data.node]
            before == getChildren(lastCall.m, S)
            r == reachable(Model)
        IN  isTabSetNode(lastCall.m, S) =>
            /\ getChildren(Model, S)
                    = SelectSeq(before, LAMBDA c : ~isEnableClose(lastCall.m, c))
            /\ \A k \in 1..Len(before) :
                    isEnableClose(lastCall.m, before[k]) => before[k] \notin r
            /\ (S \in reachable(lastCall.m) /\ S \notin r) => getChildren(Model, S) = <<>>
            /\ (S \in reachable(lastCall.m) /\ getChildren(Model, S) # <<>>) => S \in r

\* DeleteTabset on a tabset with a closeable and a non-closeable tab: the
\* first is gone, the second and the tabset are still in the layout
C13_Witness ==
    /\ called("FlexLayout_DeleteTabset")
    /\ lastCall.action.data.node = "ts1"
    /\ LET S == lastCall.m.idMap["ts1"]
       IN  /\ isTabSetNode(lastCall.m, S)
           /\ S \in reachable(lastCall.m)
           /\ Len(getChildren(lastCall.m, S)) = 2
           /\ isEnableClose(lastCall.m, getChildren(lastCall.m, S)[1])
           /\ ~isEnableClose(lastCall.m, getChildren(lastCall.m, S)[2])
           /\ getChildren(Model, S) = <<getChildren(lastCall.m, S)[2]>>
           /\ S \in reachable(Model)

\* C14: when DeleteTab removes the last tab of a tabset, the tabset leaves
\* the tree if its delete-when-empty attribute is enabled, and stays in the
\* tree, empty, if it is disabled
C14_DeleteLastTab ==
    called("FlexLayout_DeleteTab") =>
        LET tab == lastCall.m.idMap[lastCall.action.data.node]
            P == getParent(lastCall.m, tab)
        IN  (/\ isTabNode(lastCall.m, tab)
             /\ isTabSetNode(lastCall.m, P)
             /\ P \in reachable(lastCall.m)
             /\ getChildren(lastCall.m, P) = <<tab>>) =>
                IF isEnableDeleteWhenEmpty(lastCall.m, P)
                THEN P \notin reachable(Model)
                ELSE P \in reachable(Model) /\ getChildren(Model, P) = <<>>

\* the two tabs of ts1 were deleted one after the other, and ts1, which is
\* deleted when empty, left the tree with the second
C14_Witness ==
    /\ Len(trace) = 2
    /\ trace[1].action.type = "FlexLayout_DeleteTab"
    /\ called("FlexLayout_DeleteTab")
    /\ LET tab == lastCall.m.idMap[lastCall.action.data.node]
           P == getParent(lastCall.m, tab)
       IN  /\ isTabNode(lastCall.m, tab)
           /\ isTabSetNode(lastCall.m, P)
           /\ getId(lastCall.m, P) = "ts1"
           /\ P \in reachable(lastCall.m)
           /\ getChildren(lastCall.m, P) = <<tab>>
           /\ isEnableDeleteWhenEmpty(lastCall.m, P)
           /\ P \notin reachable(Model)

\* C15: after DeleteTabset on the sole tabset of the layout, all of whose
\* tabs are closeable, neither the tabs nor the tabset are in the model, the
\* root is still a row, and there is no empty row below the root and no row
\* whose only child is a row
C15_DeleteSoleTabset ==
    called("FlexLayout_DeleteTabset") =>
        LET S == lastCall.m.idMap[lastCall.action.data.node]
            tabs == getChildren(lastCall.m, S)
            gone == {S} \cup {tabs[k] : k \in 1..Len(tabs)}
            r == reachable(Model)
            v == forEachNode(lastCall.m, lastCall.m.root)
        IN  (/\ isTabSetNode(lastCall.m, S)
             /\ {v[k] : k \in {j \in 1..Len(v) : isTabSetNode(lastCall.m, v[j])}} = {S}
             /\ \A k \in 1..Len(tabs) : isEnableClose(lastCall.m, tabs[k])) =>
                /\ gone \cap r = {}
                /\ \A n \in gone : getNodeById(Model, getId(lastCall.m, n)) = NoNode
                /\ isRowNode(Model, root)
                /\ \A n \in r :
                        isRowNode(Model, n) =>
                            /\ n # root => getChildren(Model, n) # <<>>
                            /\ ~(Len(getChildren(Model, n)) = 1
                                  /\ isRowNode(Model, getChildren(Model, n)[1]))

\* the only tabset of the layout, with two closeable tabs, was deleted: the
\* root row holds one fresh, empty tabset
C15_Witness ==
    /\ called("FlexLayout_DeleteTabset")
    /\ LET S == lastCall.m.idMap[lastCall.action.data.node]
       IN  /\ isTabSetNode(lastCall.m, S)
           /\ getChildren(lastCall.m, lastCall.m.root) = <<S>>
           /\ Len(getChildren(lastCall.m, S)) = 2
           /\ \A k \in 1..2 : isEnableClose(lastCall.m, getChildren(lastCall.m, S)[k])
           /\ S \notin reachable(Model)
           /\ Len(getChildren(Model, root)) = 1
           /\ isTabSetNode(Model, getChildren(Model, root)[1])
           /\ getChildren(Model, getChildren(Model, root)[1]) = <<>>

\* the node MoveNode was asked to move, in the model it found
moveSource == lastCall.m.idMap[lastCall.action.data.fromNode]

\* C16: MoveNode whose source is the maximized tabset clears the maximized
\* state, so after the action no tabset is maximized
C16_MoveClearsMaximized ==
    (/\ called("FlexLayout_MoveNode")
     /\ moveSource # NoNode
     /\ moveSource = getMaximizedTabset(lastCall.m))
        => /\ maximizedTabSet = NoNode
           /\ getMaximizedTabset(Model) = NoNode

\* the maximized tabset ts1, a child of the root, was moved to the left of ts2
C16_Witness ==
    /\ called("FlexLayout_MoveNode")
    /\ ~outcome.threw
    /\ lastCall.action.data.fromNode = "ts1"
    /\ lastCall.action.data.toNode = "ts2"
    /\ lastCall.action.data.location = "left"
    /\ isTabSetNode(lastCall.m, moveSource)
    /\ moveSource = getMaximizedTabset(lastCall.m)
    /\ getParent(lastCall.m, moveSource) = lastCall.m.root
    /\ maximizedTabSet = NoNode

\* C17: MoveNode of a Tab or TabSet never duplicates or loses tabs: after the
\* action every moved tab is in exactly one children list of the tree or the
\* borders, and the set of tab ids of the model is the one before the action
C17_MoveKeepsTabs ==
    LET tabIds(m) == {getId(m, n) : n \in {k \in reachable(m) : isTabNode(m, k)}}
        places(m, t) == {<<p, i>> \in reachable(m) \X (1..MaxNodes) :
                            i <= Len(getChildren(m, p)) /\ getChildren(m, p)[i] = t}
        movedTabs == IF isTabNode(lastCall.m, moveSource) THEN {moveSource}
                     ELSE {getChildren(lastCall.m, moveSource)[i] :
                              i \in 1..Len(getChildren(lastCall.m, moveSource))}
    IN  (/\ called("FlexLayout_MoveNode")
         /\ isTabNode(lastCall.m, moveSource) \/ isTabSetNode(lastCall.m, moveSource))
            => /\ \A t \in movedTabs : Cardinality(places(Model, t)) = 1
               /\ tabIds(Model) = tabIds(lastCall.m)

\* the node MoveNode was asked to drop onto, in the model it found
moveTarget == lastCall.m.idMap[lastCall.action.data.toNode]

\* a tab of a tabset was moved to the LEFT of another tabset of the tree
movedLeftOfTabset ==
    /\ called("FlexLayout_MoveNode")
    /\ lastCall.action.data.location = "left"
    /\ isTabNode(lastCall.m, moveSource)
    /\ moveSource \in reachable(lastCall.m)
    /\ isTabSetNode(lastCall.m, getParent(lastCall.m, moveSource))
    /\ isTabSetNode(lastCall.m, moveTarget)
    /\ moveTarget \in reachable(lastCall.m)
    /\ moveTarget # getParent(lastCall.m, moveSource)

\* the tabset made for the tab MoveNode moved, and the row it is in
movedInto == getParent(Model, moveSource)
movedIntoRow == getParent(Model, movedInto)

\* the moved tab is alone in a new tabset immediately before the target in a
\* horizontal row of the tree, and is no child of its old tabset
splitLeftOfTarget ==
    /\ movedInto = lastCall.m.nextNode
    /\ isTabSetNode(Model, movedInto)
    /\ getChildren(Model, movedInto) = <<moveSource>>
    /\ isRowNode(Model, movedIntoRow)
    /\ movedIntoRow \in reachable(Model)
    /\ getOrientation(Model, movedIntoRow) = "horz"
    /\ getParent(Model, moveTarget) = movedIntoRow
    /\ indexOf(getChildren(Model, movedIntoRow), moveTarget)
           = indexOf(getChildren(Model, movedIntoRow), movedInto) + 1
    /\ indexOf(getChildren(Model, getParent(lastCall.m, moveSource)), moveSource) = 0 - 1

\* the row the drop puts the new tabset in: the target's parent row when it is
\* horizontal, else the row the drop makes around the target
splitRow ==
    IF getOrientation(lastCall.m, getParent(lastCall.m, moveTarget)) = "horz"
    THEN getParent(lastCall.m, moveTarget)
    ELSE lastCall.m.nextNode + 1

\* C18: MoveNode of tab t1 from its tabset onto another tabset T with location
\* LEFT puts t1 alone in a new tabset immediately before T in a horizontal
\* row, and t1 is no child of its old tabset; the row is T's parent row if that
\* was horizontal and a new row around T otherwise, unless the tidy of the
\* drop dissolved that row into the horizontal row two levels above it
C18_MoveLeftSplits ==
    movedLeftOfTabset =>
        /\ splitLeftOfTarget
        /\ \/ movedIntoRow = splitRow
           \/ /\ ~(splitRow \in reachable(Model))
              /\ movedIntoRow =
                    IF splitRow = getParent(lastCall.m, moveTarget)
                    THEN getParent(lastCall.m, getParent(lastCall.m, splitRow))
                    ELSE getParent(lastCall.m, getParent(lastCall.m, moveTarget))

\* C18 as stated: the row is always T's parent row if that was horizontal, and
\* a new row around T otherwise
C18_MoveLeftAsStated ==
    movedLeftOfTabset => (splitLeftOfTarget /\ movedIntoRow = splitRow)

\* t1 was moved to the left of a tabset whose parent row was vertical: a new
\* row holds the new tabset and the target
C18_Witness ==
    /\ movedLeftOfTabset
    /\ ~outcome.threw
    /\ getOrientation(lastCall.m, getParent(lastCall.m, moveTarget)) = "vert"
    /\ movedIntoRow = lastCall.m.nextNode + 1
    /\ getChildren(Model, movedIntoRow) = <<movedInto, moveTarget>>

\* C19: for a model built from a JSON document doc, toJson(fromJson(doc))
\* has the tree structure of doc and carries exactly the attribute values doc
\* set: no node of doc is missing and no attribute doc left out is written
C19_RoundTrip ==
    (/\ Len(trace) = 2
     /\ trace[1].action.type = "Model.fromJson"
     /\ called("Model.toJson"))
        => outcome.returnVal = trace[1].action.data.json

\* C20: tidy is idempotent: after two tidy passes in a row (the second pass
\* follows Model.tidy() or the tidy of Model.fromJson) the tree is the one the
\* first pass left
C20_TidyIdempotent ==
    (/\ Len(trace) >= 2
     /\ trace[Len(trace) - 1].action.type \in {"Model.tidy", "Model.fromJson"}
     /\ called("Model.tidy"))
        => toJson(Model) = toJson(lastCall.m)

askedDropTarget == view.dragNode # NoNode

\* C21: a CENTER drop onto a tabset whose enableDrop is false is never
\* accepted: canDockInto rejects it, and findDropTargetNode returns no DropInfo
\* for it wherever the pointer is
C21_NoCenterDropWhenDisabled ==
    /\ \A n \in view.noDrop, d \in {idMap["t1"], idMap["b1"], idMap["ts2"]} :
           isTabSetNode(Model, n) =>
               ~canDockInto(view, Model, d,
                            [node |-> n, location |-> "center", index |-> 0 - 1], <<>>).ok
    /\ askedDropTarget =>
           ~(/\ view.dropInfo # NoDropInfo
             /\ view.dropInfo.location = "center"
             /\ isTabSetNode(Model, view.dropInfo.node)
             /\ view.dropInfo.node \in view.noDrop)

\* the pointer was in the centre of the drop-disabled tabset ts1, nothing
\* maximized, and no drop target came back
C21_Witness ==
    /\ askedDropTarget
    /\ idMap["ts1"] \in view.noDrop
    /\ maximizedTabSet = NoNode
    /\ view.dragNode = idMap["t3"]
    /\ view.x = 4 /\ view.y = 2
    /\ contains(getRect(Model, idMap["ts1"]), view.x, view.y)
    /\ view.dropInfo = NoDropInfo

\* C22: the onAllowDrop predicate is called only for a DropInfo that passed
\* the three structural rules of canDockInto, and its answer is the gate's
\* result: the DropInfo it allows is the one returned, one it denies is not
C22_StructuralBeforeVeto ==
    askedDropTarget =>
        /\ \A k \in 1..Len(view.calls) :
            LET c == view.calls[k]
                answer == \/ view.onAllowDrop = "true"
                          \/ view.onAllowDrop = "center" /\ c.location = "center"
            IN  /\ view.onAllowDrop # Undefined
                /\ ~(c.location = "center" /\ c.node \in view.noDrop)
                /\ ~(c.location = "center" /\ isTabSetNode(Model, view.dragNode)
                     /\ nodes[view.dragNode].name # Undefined)
                /\ ~(c.location # "center" /\ c.node \in view.noDivide)
                /\ answer <=> (view.dropInfo = c)
        /\ (view.onAllowDrop # Undefined /\ view.dropInfo # NoDropInfo) =>
               \E k \in 1..Len(view.calls) : view.calls[k] = view.dropInfo

\* the predicate denied a structurally legal drop on ts1 and allowed none: it
\* was asked, and no drop target came back
C22_Witness ==
    /\ askedDropTarget
    /\ view.onAllowDrop = "center"
    /\ view.noDrop = {}
    /\ Len(view.calls) = 1
    /\ view.calls[1].node = idMap["ts1"]
    /\ view.calls[1].location = "left"
    /\ view.dropInfo = NoDropInfo

\* C23: while a tabset is maximized, findDropTargetNode returns undefined or
\* a DropInfo of the maximized tabset's own drop test, never a drop target on
\* another tabset, a row edge or a border
C23_MaximizedOnly ==
    (askedDropTarget /\ maximizedTabSet # NoNode) =>
        \/ view.dropInfo = NoDropInfo
        \/ view.dropInfo.node = maximizedTabSet

\* the last Layout.doAction call handed an action on to model.doAction
reachedModel == view.call # <<>> /\ handedOn(view, view.call[1].action) # <<>>

\* C24: an action dispatched through the Layout passes through onAction when
\* that is given: if the callback returns undefined the model is as before
\* and no change listener was called; otherwise exactly the action it
\* returned was applied to the model
C24_OnActionGate ==
    view.call # <<>> =>
        LET c == view.call[1]
            isDelete == c.action.type = "FlexLayout_DeleteTab"
            returned == IF view.onAction = "replace" /\ isDelete
                        THEN [type |-> "FlexLayout_SelectTab",
                              data |-> [tabNode |-> c.action.data.node]]
                        ELSE c.action
        IN  IF view.onAction = "veto" /\ isDelete
            THEN /\ Model = c.m
                 /\ notified = <<>>
                 /\ (trace # <<>> => lastCall.action # c.action \/ lastCall.m # c.m)
            ELSE /\ trace # <<>>
                 /\ lastCall.action = returned
                 /\ lastCall.m = c.m
                 /\ Model = doAction(c.m, lastCall.changeListeners, returned).m

\* the callback has returned undefined for DeleteTab(t1): t1 is still a tab
\* of ts1
C24_Witness ==
    /\ view.call # <<>>
    /\ view.onAction = "veto"
    /\ view.call[1].action = [type |-> "FlexLayout_DeleteTab", data |-> [node |-> "t1"]]
    /\ idMap["t1"] \in reachable(Model)
    /\ steps = 2

\* C29: for a mounted Layout each model.doAction that returns calls the
\* onModelChange prop exactly once, however often the Layout has re-rendered
C29_OneModelChange ==
    (reachedModel /\ ~outcome.threw) =>
        Cardinality({k \in 1..Len(notified) : notified[k].listener = OnModelChange}) = 1

\* the last model change has been processed: the last Layout.doAction call
\* reached the model, which returned and called the listeners
processed == reachedModel /\ ~outcome.threw

\* the panel of an entry of tabs is visible
panelVisible(id) == ~isHidden(Model, view.tabs[id])

\* C25: after OptimizedLayout has processed a model change, the keys of its
\* tabs map are the ids of the TabNodes in the model, and an entry whose id
\* was there before has the rect it had
C25_TabsFollowModel ==
    processed =>
        /\ DOMAIN view.tabs = {getId(Model, n) : n \in {r \in reachable(Model) : isTabNode(Model, r)}}
        /\ \A id \in DOMAIN view.tabs \cap DOMAIN view.prevTabs :
               view.tabs[id].rect = view.prevTabs[id].rect

\* t1 was moved to ts2 and its entry still has the rectangle of ts1; then n1
\* was added and has an entry
C25_Witness ==
    /\ processed
    /\ "n1" \in DOMAIN view.tabs
    /\ "n1" \notin DOMAIN view.prevTabs
    /\ getParent(Model, idMap["t1"]) = idMap["ts2"]
    /\ view.tabs["t1"].rect = getContentRect(Model, idMap["ts1"])

\* C26: once a model change has been processed, a panel is visible exactly
\* when its tab is the selected tab of its parent and, if a tabset is
\* maximized, that parent is the maximized tabset; so with nothing maximized
\* every tabset with tabs shows exactly one panel, and with a maximized tabset
\* only its selected tab is visible
C26_VisiblePanels ==
    processed =>
        /\ \A id \in DOMAIN view.tabs :
            LET n == view.tabs[id].node
                p == getParent(Model, n)
                selectedInParent ==
                    /\ p # NoNode
                    /\ getSelected(Model, p) \in 0..(Len(getChildren(Model, p)) - 1)
                    /\ getChildren(Model, p)[getSelected(Model, p) + 1] = n
            IN  panelVisible(id) <=>
                    /\ selectedInParent
                    /\ maximizedTabSet # NoNode => p = maximizedTabSet
        /\ maximizedTabSet = NoNode =>
               \A ts \in reachable(Model) :
                   (isTabSetNode(Model, ts) /\ getChildren(Model, ts) # <<>>) =>
                       Cardinality({id \in DOMAIN view.tabs :
                                       /\ panelVisible(id)
                                       /\ getParent(Model, view.tabs[id].node) = ts}) = 1
        /\ maximizedTabSet # NoNode =>
               \A id \in DOMAIN view.tabs :
                   panelVisible(id) =>
                       /\ getParent(Model, view.tabs[id].node) = maximizedTabSet
                       /\ getSelected(Model, maximizedTabSet) >= 0
                       /\ getChildren(Model, maximizedTabSet)[getSelected(Model, maximizedTabSet) + 1]
                              = view.tabs[id].node

\* C27: from the moment a drag has entered the layout until it ends (drop,
\* leave or dragend) every tab panel has pointer-events none; when no drag
\* is in progress every visible panel has pointer-events auto
C27_PointerEvents ==
    /\ view.at = "layout" =>
           \A id \in DOMAIN view.tabs :
               pointerEvents(view, Model, view.tabs[id]) = "none"
    /\ view.at = "idle" =>
           \A id \in DOMAIN view.tabs :
               panelVisible(id) => pointerEvents(view, Model, view.tabs[id]) = "auto"

\* C28: the Layout has reported onDragStateChange(true) while a drag it owns
\* is on it, and onDragStateChange(false) once the drag has left, was dropped
\* or was cleared: after a complete drag gesture the last value reported is
\* not true
C28_DragStateReported ==
    /\ view.at = "layout" => view.reported = "true"
    /\ view.at \in {"outside", "idle"} => view.reported # "true"

\* the calls made so far are AddNode, MoveNode, DeleteTab and SelectTab only
onlyTabActions ==
    \A k \in 1..Len(trace) :
        trace[k].action.type \in {"FlexLayout_AddNode", "FlexLayout_MoveNode",
                                  "FlexLayout_DeleteTab", "FlexLayout_SelectTab"}

\* C31: after any sequence of AddNode, MoveNode, DeleteTab and SelectTab on
\* the loaded model, every tabset in the tree that has a child has a
\* selected index i with 0 <= i < number of children
C31_SelectionValid ==
    onlyTabActions =>
        \A R \in {reachable(Model)} : \A ts \in R :
            (isTabSetNode(Model, ts) /\ getChildren(Model, ts) # <<>>) =>
                /\ getSelected(Model, ts) >= 0
                /\ getSelected(Model, ts) < Len(getChildren(Model, ts))

\* the path of node n by its position in the tree: the path of its parent,
\* the prefix of its kind and its index among the parent's children
RECURSIVE positionPath(_, _)
positionPath(m, n) ==
    IF n = m.root THEN ""
    ELSE IF isBorderNode(m, n) THEN "/border/left"
    ELSE positionPath(m, getParent(m, n))
         \o (IF isRowNode(m, n) THEN (IF getOrientation(m, n) = "vert" THEN "/c" ELSE "/r")
             ELSE IF isTabSetNode(m, n) THEN "/ts" ELSE "/t")
         \o ToString(indexOf(getChildren(m, getParent(m, n)), n))

StructuralActions ==
    {"FlexLayout_AddNode", "FlexLayout_MoveNode", "FlexLayout_DeleteTab",
     "FlexLayout_DeleteTabset"}

\* C32: when a change listener is invoked for an AddNode, MoveNode, DeleteTab
\* or DeleteTabset, the path of every node in the tree, as the listener finds
\* it, is the path of the node's position
C32_PathsCurrent ==
    (\E k \in 1..Len(notified) : notified[k].action.type \in StructuralActions) =>
        \A R \in {reachable(Model)} : \A n \in R :
            view.seenPaths[n] = positionPath(Model, n)

\* the nodes of the tree under the root row
inTree(m) == LET v == forEachNode(m, m.root) IN {v[k] : k \in 1..Len(v)}

\* C33: whenever getMaximizedTabset() is defined it is a tabset in the tree
\* under the root row
C33_MaximizedInTree ==
    getMaximizedTabset(Model) # NoNode =>
        /\ isTabSetNode(Model, getMaximizedTabset(Model))
        /\ getMaximizedTabset(Model) \in inTree(Model)

\* C34: getActiveTabset() returns undefined or a tabset that is in the tree
\* under the root row
C34_ActiveInTree ==
    getActiveTabset(Model) # NoNode =>
        /\ isTabSetNode(Model, getActiveTabset(Model))
        /\ getActiveTabset(Model) \in inTree(Model)

\* the Layout's onModelChange is among the listeners
registered(listeners) ==
    \E k \in 1..Len(listeners) : listeners[k] = OnModelChange

\* model A is no more the Layout's model: the model prop is another model,
\* or the Layout is unmounted
leftModelA == view.model # "A" \/ ~view.mounted

\* C35: after the Layout's model prop is replaced by another model, or the
\* Layout is unmounted, no registration of the Layout's onModelChange remains
\* on the old model, and an action on the old model does not invoke it
C35_OldModelReleased ==
    /\ leftModelA =>
        /\ ~registered(changeListeners)
        /\ (trace # <<>> /\ lastCall.changeListeners = changeListeners)
               => ~registered([k \in 1..Len(notified) |-> notified[k].listener])
    /\ (view.model # "B" \/ ~view.mounted) => ~registered(view.otherListeners)

\* C36: every change listener is notified of the actions in the order
\* doAction was called with them: a listener called with the action of the
\* outer call has not been called before with an action that a listener
\* dispatched during that call
C36_NotifiedInCallOrder ==
    trace # <<>> =>
        \A i, j \in 1..Len(notified) :
            (/\ i < j
             /\ notified[i].listener = notified[j].listener
             /\ notified[j].action = lastCall.action)
                => notified[i].action = lastCall.action

\* C37: once a model change has been processed, the tabs whose panel
\* OptimizedLayout shows are the tabs whose content the standard Layout
\* shows for the same model
C37_SameTabsShown ==
    processed =>
        {id \in DOMAIN view.tabs : panelVisible(id)}
            = {getId(Model, n) : n \in {r \in reachable(Model) :
                                             isTabNode(Model, r) /\ ~tabDisplayNone(Model, r)}}

\* C38: in every interleaving of DeleteTab actions, model-change handlers and
\* TabRef mount callbacks, when no mount callback is pending the tabs map of
\* OptimizedLayout has no entry for an id that no tab of the model has
C38_NoStaleTabEntry ==
    view.pending = {} =>
        \A id \in DOMAIN view.tabs :
            \E n \in reachable(Model) : isTabNode(Model, n) /\ getId(Model, n) = id

\* C39: in every state reached by drag events on the layouts that share the
\* static dragState, a layout whose dragging flag is true owns the dragState
\* and has exactly one outline element attached, and a layout whose dragging
\* flag is false has none
C39_DraggingOwnsDragState ==
    \A l \in Layouts :
        /\ view.layouts[l].dragging =>
               /\ view.dragState # NoDragState
               /\ view.dragState.mainLayout = l
               /\ view.layouts[l].outlines = 1
        /\ ~view.layouts[l].dragging => view.layouts[l].outlines = 0

====
